---------------------------- MODULE Spec2Model ----------------------------
(***************************************************************************)
(* HVAC commissioning logger: the test result computation engine           *)
(* (lib/calculations.ts, lib/test-computations.ts) and the POST /api/tests *)
(* handler that stores its results.                                        *)
(*                                                                         *)
(* JavaScript values are records [t, n, d, s] of one shape:                *)
(*   t = "num"    the finite number n/d, in lowest terms, d > 0            *)
(*   t = "nan"    NaN                                                      *)
(*   t = "inf"    +Infinity (n = 1) or -Infinity (n = -1)                  *)
(*   t = "undef"  undefined (a missing property)                           *)
(*   t = "bool"   true (n = 1) or false (n = 0)                            *)
(*   t = "str"    the string s                                             *)
(* Finite arithmetic is exact rational arithmetic: the rounding of IEEE    *)
(* doubles is not modelled, and -0 is not told apart from 0.  NaN and the  *)
(* infinities follow IEEE 754.                                             *)
(***************************************************************************)
EXTENDS Integers, Sequences, FiniteSets, TLC

VARIABLES
  pc,           \* position of the current invocation: "call" | "returned"
  testType,     \* computeTestResult argument: the discriminant
  reading,      \* computeTestResult argument: the reading payload
  weatherData,  \* computeTestResult argument: [outdoorTemp, outdoorRH]
  result,       \* what the invocation produced (a value or a thrown error)
  chk,          \* threshold primitive invocation: [name, value, outdoorTemp]
  chkResult,    \* the CheckResult the primitive returned
  testResults,  \* db.testResult: the sequence of stored rows
  request,      \* the last request POST /api/tests handled
  response,     \* the response the handler gave to it
  calls,        \* the invocations of computeTestResult so far, in order
  calc,         \* calculation primitive invocation: [name, args]
  calcResult,   \* what the calculation primitive returned
  query,        \* the last GET request handled
  view,         \* the payload the GET handler answered with
  projects,     \* db.project: the sequence of rows created
  memberships,  \* db.membership: the set of rows created
  reports,      \* db.report: the sequence of stored rows
  handlers,     \* the POST /api/reports/[sessionId] requests in progress
  files,        \* db.fileAsset: the set of stored rows
  objects,      \* the keys of the objects in the S3 bucket
  computed      \* CoilPerformanceForm: what the form shows live, if anything

\* The tables and requests of the handlers other than POST /api/tests.

tableVars == <<projects, memberships, reports, handlers, files, objects>>
handlerVars == <<query, view, tableVars>>

vars == <<pc, testType, reading, weatherData, result, chk, chkResult,
          testResults, request, response, calls, calc, calcResult,
          query, view, projects, memberships, reports, handlers, files, objects,
          computed>>

----------------------------------------------------------------------------
(* JavaScript values                                                       *)

Abs(x) == IF x < 0 THEN -x ELSE x

RECURSIVE GCD(_, _)
GCD(a, b) == IF b = 0 THEN a ELSE GCD(b, a % b)

\* The finite number n/d (d # 0), in lowest terms with a positive denominator.
Num(n, d) ==
  LET g == GCD(Abs(n), Abs(d))
      sg == IF d < 0 THEN -1 ELSE 1
  IN [t |-> "num", n |-> sg * (n \div g), d |-> Abs(d) \div g, s |-> ""]

Whole(n) == [t |-> "num", n |-> n, d |-> 1, s |-> ""]
NaN == [t |-> "nan", n |-> 0, d |-> 1, s |-> ""]
Infinity(sign) == [t |-> "inf", n |-> sign, d |-> 1, s |-> ""]
Undefined == [t |-> "undef", n |-> 0, d |-> 1, s |-> ""]
Bool(b) == [t |-> "bool", n |-> IF b THEN 1 ELSE 0, d |-> 1, s |-> ""]
Str(x) == [t |-> "str", n |-> 0, d |-> 1, s |-> x]

IsFinite(v) == v.t = "num"
Sign(v) == IF v.n > 0 THEN 1 ELSE IF v.n < 0 THEN -1 ELSE 0

\* ToNumber, for the operand of an arithmetic or relational operator.
\* Strings do not occur in numeric positions of the readings modelled here.
ToNumber(v) ==
  CASE v.t \in {"num", "nan", "inf"} -> v
    [] v.t = "bool" -> Whole(v.n)
    [] OTHER -> NaN

\* ToBoolean: undefined, NaN, 0, "" and false are falsy.
Truthy(v) ==
  CASE v.t = "num" -> v.n # 0
    [] v.t = "inf" -> TRUE
    [] v.t = "bool" -> v.n = 1
    [] v.t = "str" -> v.s # ""
    [] OTHER -> FALSE

\* a || b
Or(a, b) == IF Truthy(a) THEN a ELSE b

\* a === b
StrictEq(a, b) == a.t # "nan" /\ a = b

Neg(v) ==
  LET a == ToNumber(v)
  IN CASE a.t = "num" -> [a EXCEPT !.n = -a.n]
       [] a.t = "inf" -> Infinity(-a.n)
       [] OTHER -> NaN

Add(x, y) ==
  LET a == ToNumber(x)
      b == ToNumber(y)
  IN CASE a.t = "nan" \/ b.t = "nan" -> NaN
       [] a.t = "inf" /\ b.t = "inf" -> IF a.n = b.n THEN a ELSE NaN
       [] a.t = "inf" -> a
       [] b.t = "inf" -> b
       [] OTHER -> LET g == GCD(a.d, b.d)
                   IN Num(a.n * (b.d \div g) + b.n * (a.d \div g), (a.d \div g) * b.d)

Sub(x, y) == Add(x, Neg(y))

Mul(x, y) ==
  LET a == ToNumber(x)
      b == ToNumber(y)
  IN CASE a.t = "nan" \/ b.t = "nan" -> NaN
       [] a.t = "inf" \/ b.t = "inf" ->
            IF Sign(a) * Sign(b) = 0 THEN NaN ELSE Infinity(Sign(a) * Sign(b))
       [] OTHER -> LET g1 == GCD(Abs(a.n), b.d)
                       g2 == GCD(Abs(b.n), a.d)
                   IN Num((a.n \div g1) * (b.n \div g2), (a.d \div g2) * (b.d \div g1))

\* x / y: a finite value over zero is an infinity, 0/0 and Inf/Inf are NaN.
Div(x, y) ==
  LET a == ToNumber(x)
      b == ToNumber(y)
  IN CASE a.t = "nan" \/ b.t = "nan" -> NaN
       [] a.t = "inf" /\ b.t = "inf" -> NaN
       [] a.t = "inf" -> Infinity(IF Sign(b) < 0 THEN -a.n ELSE a.n)
       [] b.t = "inf" -> Whole(0)
       [] b.n = 0 -> IF a.n = 0 THEN NaN ELSE Infinity(Sign(a))
       [] OTHER -> Mul(a, Num(b.d, b.n))

\* ra/da < rb/db for fractions in [0, 1), by their continued fractions (the
\* cross products may not fit 32-bit integers).
RECURSIVE FracLess(_, _, _, _)
FracLess(ra, da, rb, db) ==
  IF rb = 0 THEN FALSE
  ELSE IF ra = 0 THEN TRUE
  ELSE IF da \div ra # db \div rb THEN da \div ra > db \div rb
  ELSE FracLess(db % rb, rb, da % ra, ra)

\* x < y; every comparison with NaN is false.
Lt(x, y) ==
  LET a == ToNumber(x)
      b == ToNumber(y)
  IN CASE a.t = "nan" \/ b.t = "nan" -> FALSE
       [] a.t = "inf" -> a.n = -1 /\ ~(b.t = "inf" /\ b.n = -1)
       [] b.t = "inf" -> b.n = 1
       [] OTHER -> IF a.n \div a.d # b.n \div b.d
                   THEN a.n \div a.d < b.n \div b.d
                   ELSE FracLess(a.n % a.d, a.d, b.n % b.d, b.d)

NumEq(x, y) ==
  LET a == ToNumber(x)
      b == ToNumber(y)
  IN a.t # "nan" /\ b.t # "nan" /\ a = b

Le(x, y) == Lt(x, y) \/ NumEq(x, y)
Gt(x, y) == Lt(y, x)
Ge(x, y) == Le(y, x)

\* Math.abs
MathAbs(x) ==
  LET a == ToNumber(x)
  IN CASE a.t = "num" -> [a EXCEPT !.n = Abs(a.n)]
       [] a.t = "inf" -> Infinity(1)
       [] OTHER -> NaN

----------------------------------------------------------------------------
(* Number formatting: template literals and Number.prototype.toFixed       *)

Digit == <<"0", "1", "2", "3", "4", "5", "6", "7", "8", "9">>

RECURSIVE Pow10(_)
Pow10(k) == IF k = 0 THEN 1 ELSE 10 * Pow10(k - 1)

\* The decimal digits of a natural number.
RECURSIVE NatStr(_)
NatStr(n) == IF n < 10 THEN Digit[n + 1] ELSE NatStr(n \div 10) \o Digit[(n % 10) + 1]

\* The decimal digits of the fraction r/d (r < d), at most k of them, ending
\* where the expansion ends.
RECURSIVE FracStr(_, _, _)
FracStr(r, d, k) ==
  IF r = 0 \/ k = 0 THEN ""
  ELSE Digit[((r * 10) \div d) + 1] \o FracStr((r * 10) % d, d, k - 1)

\* String(v), as a template literal renders v.  A finite number is rendered in
\* decimal notation with up to 17 fraction digits.
JsString(v) ==
  CASE v.t = "str" -> v.s
    [] v.t = "undef" -> "undefined"
    [] v.t = "nan" -> "NaN"
    [] v.t = "inf" -> IF v.n > 0 THEN "Infinity" ELSE "-Infinity"
    [] v.t = "bool" -> IF v.n = 1 THEN "true" ELSE "false"
    [] OTHER ->
         LET m == Abs(v.n)
             frac == FracStr(m % v.d, v.d, 17)
         IN (IF v.n < 0 THEN "-" ELSE "") \o NatStr(m \div v.d)
            \o (IF frac = "" THEN "" ELSE "." \o frac)

\* k digits, zero-padded on the left.
RECURSIVE PadStr(_, _)
PadStr(n, k) == IF k = 0 THEN "" ELSE PadStr(n \div 10, k - 1) \o Digit[(n % 10) + 1]

\* x.toFixed(k) of a number x: rounded half away from zero to k fraction digits.
ToFixed(x, k) ==
  CASE x.t = "nan" -> "NaN"
    [] x.t = "inf" -> IF x.n > 0 THEN "Infinity" ELSE "-Infinity"
    [] OTHER ->
         LET m == Abs(x.n)
             ip == m \div x.d
             scaled == ((2 * (m % x.d) * Pow10(k)) + x.d) \div (2 * x.d)
             whole == ip + (scaled \div Pow10(k))
             frac == scaled % Pow10(k)
         IN (IF x.n < 0 THEN "-" ELSE "") \o NatStr(whole)
            \o (IF k = 0 THEN "" ELSE "." \o PadStr(frac, k))

----------------------------------------------------------------------------
(* Transcendental functions, to four decimals                              *)

\* floor(r * 10^k / d) for 0 <= r < d, by long division.
RECURSIVE ScaleDiv(_, _, _)
ScaleDiv(r, d, k) ==
  IF k = 0 THEN 0
  ELSE ((r * 10) \div d) * Pow10(k - 1) + ScaleDiv((r * 10) % d, d, k - 1)

\* A finite number rounded to the nearest multiple of 1/10000: the precision
\* the logarithm and the dew point are carried at.
Round4(x) ==
  IF x.t # "num" THEN x
  ELSE LET m == Abs(x.n)
           f5 == ScaleDiv(m % x.d, x.d, 5)
           u == (m \div x.d) * 10000 + ((f5 + 5) \div 10)
       IN Num(Sign(x) * u, 10000)

\* 10000 * ln(k/100), rounded, for k = 1 .. 100.
LnTable ==
  <<
     -46052, -39120, -35066, -32189, -29957, -28134, -26593, -25257, -24079, -23026,
     -22073, -21203, -20402, -19661, -18971, -18326, -17720, -17148, -16607, -16094,
     -15606, -15141, -14697, -14271, -13863, -13471, -13093, -12730, -12379, -12040,
     -11712, -11394, -11087, -10788, -10498, -10217, -9943, -9676, -9416, -9163,
     -8916, -8675, -8440, -8210, -7985, -7765, -7550, -7340, -7133, -6931,
     -6733, -6539, -6349, -6162, -5978, -5798, -5621, -5447, -5276, -5108,
     -4943, -4780, -4620, -4463, -4308, -4155, -4005, -3857, -3711, -3567,
     -3425, -3285, -3147, -3011, -2877, -2744, -2614, -2485, -2357, -2231,
     -2107, -1985, -1863, -1744, -1625, -1508, -1393, -1278, -1165, -1054,
     -943, -834, -726, -619, -513, -408, -305, -202, -101, 0
  >>

\* Math.log(x): -Infinity at 0, NaN below 0.  Finite positive arguments are
\* whole hundredths up to 1 (a relative humidity in whole percent over 100).
MathLog(x) ==
  LET a == ToNumber(x)
  IN CASE a.t = "nan" -> NaN
       [] a.t = "inf" -> IF a.n > 0 THEN a ELSE NaN
       [] a.n < 0 -> NaN
       [] a.n = 0 -> Infinity(-1)
       [] OTHER -> Num(LnTable[(a.n * 100) \div a.d], 10000)

----------------------------------------------------------------------------
(* lib/calculations.ts                                                     *)

\* calculateDewPoint(tempF, rh): Magnus formula.  The quotient a*T/(b+T) and
\* the dew point in Celsius are carried to four decimals.
calculateDewPoint(tempF, rh) ==
  LET tempC == Div(Mul(Sub(tempF, Whole(32)), Whole(5)), Whole(9))
      a == Num(17625, 1000)
      b == Num(24304, 100)
      gamma == Add(MathLog(Div(rh, Whole(100))),
                   Round4(Div(Mul(a, tempC), Add(b, tempC))))
      dewPointC == Round4(Div(Mul(b, gamma), Sub(a, gamma)))
  IN Add(Div(Mul(dewPointC, Whole(9)), Whole(5)), Whole(32))

\* A variant without the guard for tons === 0.
calculateCfmPerTon_Unguarded(cfm, tons) == Div(cfm, tons)

calculateCfmPerTon(cfm, tons) ==
  IF StrictEq(tons, Whole(0)) THEN Whole(0) ELSE Div(cfm, tons)

\* A variant whose R-410A segment above 200 psi rises by 0.5 per psi.
getSaturationTemp_SteepAbove200(pressure, refrigerant) ==
  IF refrigerant = "R-410A"
  THEN IF Le(pressure, Whole(50))
         THEN Add(Whole(-20), Mul(pressure, Num(16, 10)))
       ELSE IF Le(pressure, Whole(100))
         THEN Add(Whole(60), Mul(Sub(pressure, Whole(50)), Num(12, 10)))
       ELSE IF Le(pressure, Whole(200))
         THEN Add(Whole(120), Mul(Sub(pressure, Whole(100)), Num(8, 10)))
       ELSE Add(Whole(200), Mul(Sub(pressure, Whole(200)), Num(5, 10)))
  ELSE Add(Whole(32), Mul(pressure, Num(5, 10)))

\* getSaturationTemp(pressure, refrigerant)
getSaturationTemp(pressure, refrigerant) ==
  IF refrigerant = "R-410A"
  THEN IF Le(pressure, Whole(50))
         THEN Add(Whole(-20), Mul(pressure, Num(16, 10)))
       ELSE IF Le(pressure, Whole(100))
         THEN Add(Whole(60), Mul(Sub(pressure, Whole(50)), Num(12, 10)))
       ELSE IF Le(pressure, Whole(200))
         THEN Add(Whole(120), Mul(Sub(pressure, Whole(100)), Num(8, 10)))
       ELSE Add(Whole(200), Mul(Sub(pressure, Whole(200)), Num(4, 10)))
  ELSE Add(Whole(32), Mul(pressure, Num(5, 10)))

calculateSuperheat(suctionLineTemp, suctionPressure, refrigerant) ==
  Sub(suctionLineTemp, getSaturationTemp(suctionPressure, refrigerant))

calculateSubcooling(liquidLineTemp, liquidPressure, refrigerant) ==
  Sub(getSaturationTemp(liquidPressure, refrigerant), liquidLineTemp)

\* The object literal every threshold check returns.
CheckResult(pass, value, target, message) ==
  [pass |-> pass, value |-> value, target |-> target, message |-> message]

\* A variant with both bounds exclusive: deltaP > min && deltaP < max.
checkBuildingPressure_Exclusive(deltaP) ==
  LET min == Num(2, 100)
      max == Num(5, 100)
      pass == Gt(deltaP, min) /\ Lt(deltaP, max)
  IN CheckResult(pass, deltaP,
       JsString(min) \o " - " \o JsString(max) \o " in. w.c.",
       IF pass THEN "Building pressure within acceptable range"
       ELSE IF Lt(deltaP, min)
         THEN "Building pressure too low - insufficient pressurization"
       ELSE "Building pressure too high - over pressurized")

checkBuildingPressure(deltaP) ==
  LET min == Num(2, 100)
      max == Num(5, 100)
      pass == Ge(deltaP, min) /\ Le(deltaP, max)
  IN CheckResult(pass, deltaP,
       JsString(min) \o " - " \o JsString(max) \o " in. w.c.",
       IF pass THEN "Building pressure within acceptable range"
       ELSE IF Lt(deltaP, min)
         THEN "Building pressure too low - insufficient pressurization"
       ELSE "Building pressure too high - over pressurized")

checkCfmPerTon(cfmPerTon) ==
  LET min == Whole(350)
      max == Whole(400)
      pass == Ge(cfmPerTon, min) /\ Le(cfmPerTon, max)
  IN CheckResult(pass, cfmPerTon,
       JsString(min) \o " - " \o JsString(max) \o " CFM/ton",
       IF pass THEN "CFM/ton within acceptable range for dehumidification"
       ELSE IF Lt(cfmPerTon, min)
         THEN "CFM/ton too low - may indicate airflow restriction"
       ELSE "CFM/ton too high - poor dehumidification performance")

\* A variant whose range reaches up to 60.
checkSupplyDewPoint_UpTo60(supplyDP) ==
  LET min == Whole(50)
      max == Whole(60)
      pass == Ge(supplyDP, min) /\ Le(supplyDP, max)
  IN CheckResult(pass, supplyDP,
       JsString(min) \o " - " \o JsString(max) \o "°F",
       IF pass THEN "Supply dew point within acceptable range"
       ELSE IF Lt(supplyDP, min)
         THEN "Supply dew point too low - over-dehumidification"
       ELSE "Supply dew point too high - insufficient dehumidification")

checkSupplyDewPoint(supplyDP) ==
  LET min == Whole(50)
      max == Whole(55)
      pass == Ge(supplyDP, min) /\ Le(supplyDP, max)
  IN CheckResult(pass, supplyDP,
       JsString(min) \o " - " \o JsString(max) \o "°F",
       IF pass THEN "Supply dew point within acceptable range"
       ELSE IF Lt(supplyDP, min)
         THEN "Supply dew point too low - over-dehumidification"
       ELSE "Supply dew point too high - insufficient dehumidification")

\* A parameter default (outdoorTemp: number = 95) applies to undefined only.
DefaultOutdoorTemp(outdoorTemp) ==
  IF outdoorTemp.t = "undef" THEN Whole(95) ELSE outdoorTemp

\* A variant whose hot range starts at 100 (outdoorTemp >= 100).
SuperheatRange_HotFrom100(outdoorTemp) ==
  IF Ge(outdoorTemp, Whole(100)) THEN <<Whole(6), Whole(12)>>
  ELSE IF Lt(outdoorTemp, Whole(80)) THEN <<Whole(10), Whole(18)>>
  ELSE <<Whole(8), Whole(15)>>

\* The [min, max] superheat range checkSuperheat selects.
SuperheatRange(outdoorTemp) ==
  IF Gt(outdoorTemp, Whole(100)) THEN <<Whole(6), Whole(12)>>
  ELSE IF Lt(outdoorTemp, Whole(80)) THEN <<Whole(10), Whole(18)>>
  ELSE <<Whole(8), Whole(15)>>

checkSuperheat(superheat, outdoorTempArg) ==
  LET outdoorTemp == DefaultOutdoorTemp(outdoorTempArg)
      min == SuperheatRange(outdoorTemp)[1]
      max == SuperheatRange(outdoorTemp)[2]
      pass == Ge(superheat, min) /\ Le(superheat, max)
  IN CheckResult(pass, superheat,
       JsString(min) \o " - " \o JsString(max) \o "°F",
       IF pass THEN "Superheat within acceptable range"
       ELSE IF Lt(superheat, min)
         THEN "Superheat too low - possible refrigerant overcharge or TXV issues"
       ELSE "Superheat too high - possible refrigerant undercharge or restriction")

\* A variant that shifts in the direction superheat does, not the mirror.
SubcoolingRange_NotMirrored(outdoorTemp) ==
  IF Gt(outdoorTemp, Whole(100)) THEN <<Whole(6), Whole(12)>>
  ELSE IF Lt(outdoorTemp, Whole(80)) THEN <<Whole(10), Whole(18)>>
  ELSE <<Whole(8), Whole(15)>>

\* The [min, max] subcooling range checkSubcooling selects.
SubcoolingRange(outdoorTemp) ==
  IF Gt(outdoorTemp, Whole(100)) THEN <<Whole(10), Whole(18)>>
  ELSE IF Lt(outdoorTemp, Whole(80)) THEN <<Whole(6), Whole(12)>>
  ELSE <<Whole(8), Whole(15)>>

checkSubcooling(subcooling, outdoorTempArg) ==
  LET outdoorTemp == DefaultOutdoorTemp(outdoorTempArg)
      min == SubcoolingRange(outdoorTemp)[1]
      max == SubcoolingRange(outdoorTemp)[2]
      pass == Ge(subcooling, min) /\ Le(subcooling, max)
  IN CheckResult(pass, subcooling,
       JsString(min) \o " - " \o JsString(max) \o "°F",
       IF pass THEN "Subcooling within acceptable range"
       ELSE IF Lt(subcooling, min)
         THEN "Subcooling too low - possible refrigerant undercharge"
       ELSE "Subcooling too high - possible refrigerant overcharge or restriction")

\* A variant that leaves the rate per second (no conversion to per minute).
calculatePressureDecayRate_PerSecond(startPressure, endPressure, timeSeconds) ==
  IF StrictEq(timeSeconds, Whole(0)) THEN Whole(0)
  ELSE Div(Sub(startPressure, endPressure), timeSeconds)

calculatePressureDecayRate(startPressure, endPressure, timeSeconds) ==
  IF StrictEq(timeSeconds, Whole(0)) THEN Whole(0)
  ELSE Mul(Div(Sub(startPressure, endPressure), timeSeconds), Whole(60))

\* Math.min / Math.max of two numbers: NaN if either is NaN.
MathMin2(a, b) ==
  IF a.t = "nan" \/ b.t = "nan" THEN NaN ELSE IF Lt(b, a) THEN b ELSE a

MathMax2(a, b) ==
  IF a.t = "nan" \/ b.t = "nan" THEN NaN ELSE IF Gt(b, a) THEN b ELSE a

\* A variant that does not clamp the percentage.
calculateEconomizerEffectiveness_Unclamped(mixedAirTemp, returnAirTemp, outsideAirTemp) ==
  IF StrictEq(returnAirTemp, outsideAirTemp) THEN Whole(100)
  ELSE Mul(Div(Sub(returnAirTemp, mixedAirTemp),
               Sub(returnAirTemp, outsideAirTemp)), Whole(100))

calculateEconomizerEffectiveness(mixedAirTemp, returnAirTemp, outsideAirTemp) ==
  IF StrictEq(returnAirTemp, outsideAirTemp) THEN Whole(100)
  ELSE LET effectiveness == Mul(Div(Sub(returnAirTemp, mixedAirTemp),
                                    Sub(returnAirTemp, outsideAirTemp)), Whole(100))
       IN MathMax2(Whole(0), MathMin2(Whole(100), effectiveness))

\* Math.min(...values), Math.max(...values) of a non-empty array.
RECURSIVE MathMin(_)
MathMin(values) ==
  IF Len(values) = 1 THEN ToNumber(values[1])
  ELSE MathMin2(ToNumber(values[1]), MathMin(Tail(values)))

\* A variant that takes the last element for the greatest.
MathMax_Last(values) ==
  IF values = <<>> THEN Infinity(-1) ELSE values[Len(values)]

RECURSIVE MathMax(_)
MathMax(values) ==
  IF Len(values) = 1 THEN ToNumber(values[1])
  ELSE MathMax2(ToNumber(values[1]), MathMax(Tail(values)))

\* values.reduce((sum, val) => sum + val, 0)
RECURSIVE SumOf(_)
SumOf(values) ==
  IF values = <<>> THEN Whole(0)
  ELSE Add(SumOf(SubSeq(values, 1, Len(values) - 1)), values[Len(values)])

\* A finite number rounded to the nearest multiple of 1/100.
Round2(x) ==
  IF x.t # "num" THEN x
  ELSE LET m == Abs(x.n)
           f3 == ScaleDiv(m % x.d, x.d, 3)
           u == (m \div x.d) * 100 + ((f3 + 5) \div 10)
       IN Num(Sign(x) * u, 100)

\* Math.pow(x, 2): exact for x in hundredths, else of x to two decimals.
MathPow2(x) ==
  LET a == ToNumber(x)
      r == IF a.t = "num" /\ 100 % a.d # 0 THEN Round2(a) ELSE a
  IN Mul(r, r)

\* The greatest r with r * r <= v, for a natural number v, r below 2^b.
RECURSIVE ISqrtBits(_, _, _)
ISqrtBits(v, r, b) ==
  IF b < 0 THEN r
  ELSE LET c == r + 2 ^ b
       IN ISqrtBits(v, IF c * c <= v THEN c ELSE r, b - 1)

\* Math.sqrt(x), to two decimals (rounded down).
MathSqrt(x) ==
  LET a == ToNumber(x)
  IN CASE a.t = "nan" -> NaN
       [] a.t = "inf" -> IF a.n > 0 THEN a ELSE NaN
       [] a.n < 0 -> NaN
       [] OTHER -> Num(ISqrtBits((a.n \div a.d) * 10000
                                   + ScaleDiv(a.n % a.d, a.d, 4), 0, 14), 100)

RECURSIVE SquaredDeviations(_, _)
SquaredDeviations(values, avg) ==
  IF values = <<>> THEN <<>>
  ELSE <<MathPow2(Sub(values[1], avg))>> \o SquaredDeviations(Tail(values), avg)

\* A variant whose variance divides by N - 1.
calculateStats_Sample(values) ==
  IF Len(values) = 0
  THEN [min |-> Whole(0), max |-> Whole(0), avg |-> Whole(0), stdDev |-> Whole(0)]
  ELSE LET avg == Div(SumOf(values), Whole(Len(values)))
           variance == Div(SumOf(SquaredDeviations(values, avg)),
                           Whole(Len(values) - 1))
       IN [min |-> MathMin(values), max |-> MathMax(values), avg |-> avg,
           stdDev |-> MathSqrt(variance)]

calculateStats(values) ==
  IF Len(values) = 0
  THEN [min |-> Whole(0), max |-> Whole(0), avg |-> Whole(0), stdDev |-> Whole(0)]
  ELSE LET avg == Div(SumOf(values), Whole(Len(values)))
           variance == Div(SumOf(SquaredDeviations(values, avg)), Whole(Len(values)))
       IN [min |-> MathMin(values), max |-> MathMax(values), avg |-> avg,
           stdDev |-> MathSqrt(variance)]

----------------------------------------------------------------------------
(* lib/test-computations.ts                                                *)

\* A reading is a function from the names of the properties it has to their
\* values; NullReading stands for a reading that is null or undefined.
NullReading == [isNull |-> TRUE]

\* data.f: undefined when the property is missing.
Get(data, f) == IF f \in DOMAIN data THEN data[f] ELSE Undefined

\* The characters U+2264 and U+0394 of the source's texts, in ASCII here.
LeqSign == "<="
DeltaSign == "delta-"

\* What an invocation produces: a returned ComputedResult or a thrown error.
NoValue == [calculations |-> <<>>, checks |-> <<>>, pass |-> FALSE, summary |-> ""]
Return(v) == [threw |-> FALSE, error |-> "", value |-> v]
Throw(e) == [threw |-> TRUE, error |-> e, value |-> NoValue]

\* Reading a property of null or undefined throws.
TypeError == Throw("TypeError")

\* One entry of calculations, one entry of checks (both insertion-ordered).
Calc(name, value) == [name |-> name, value |-> value]
Check(name, c) ==
  [name |-> name, pass |-> c.pass, value |-> c.value, target |-> c.target,
   message |-> c.message]

ComputedResult(calculations, checks, pass, summary) ==
  [calculations |-> calculations, checks |-> checks, pass |-> pass,
   summary |-> summary]

computeBuildingPressure(data) ==
  IF data = NullReading THEN TypeError
  ELSE LET check == checkBuildingPressure(Get(data, "deltaP_inwc"))
       IN Return(ComputedResult(
            <<Calc("pressure_inwc", Get(data, "deltaP_inwc"))>>,
            <<Check("building_pressure", check)>>,
            check.pass,
            check.message))

computePressureDecay(data) ==
  IF data = NullReading THEN TypeError
  ELSE LET startDeltaP == Get(data, "startDeltaP")
           endDeltaP == Get(data, "endDeltaP")
           decayRate == calculatePressureDecayRate(startDeltaP, endDeltaP,
                                                   Get(data, "decaySeconds"))
           totalDecay == Sub(startDeltaP, endDeltaP)
           acceptableDecayRate == Num(1, 100)
           pass == Le(decayRate, acceptableDecayRate)
       IN Return(ComputedResult(
            <<Calc("decay_rate_per_min", decayRate),
              Calc("total_decay_inwc", totalDecay),
              Calc("decay_percentage", Mul(Div(totalDecay, startDeltaP), Whole(100)))>>,
            <<Check("decay_rate", CheckResult(pass, decayRate,
                LeqSign \o " " \o JsString(acceptableDecayRate) \o " in. w.c./min",
                IF pass THEN "Pressure decay within acceptable limits"
                ELSE "Excessive pressure decay - check for envelope leaks"))>>,
            pass,
            IF pass
            THEN "Pressure decay rate of " \o ToFixed(decayRate, 4)
                 \o " in. w.c./min is acceptable"
            ELSE "Pressure decay rate of " \o ToFixed(decayRate, 4)
                 \o " in. w.c./min exceeds limit"))

\* leakLocations.join(', ')
RECURSIVE Join(_, _)
Join(strings, sep) ==
  IF strings = <<>> THEN ""
  ELSE IF Len(strings) = 1 THEN strings[1]
  ELSE strings[1] \o sep \o Join(Tail(strings), sep)

computeReturnCurbLeakage(data) ==
  IF data = NullReading THEN TypeError
  ELSE LET returnStatic == Get(data, "returnStatic_inwc")
           supplyStatic == Get(data, "supplyStatic_inwc")
           pressureDiff == MathAbs(Sub(returnStatic, supplyStatic))
           maxDiff == Num(1, 10)
           pressurePass == Le(pressureDiff, maxDiff)
           leakPass == ~Truthy(Get(data, "smokeLeaksFound"))
           overallPass == pressurePass /\ leakPass
           joined == IF "leakLocations" \in DOMAIN data
                     THEN Join(data["leakLocations"], ", ") ELSE ""
       IN Return(ComputedResult(
            <<Calc("return_static_inwc", returnStatic),
              Calc("supply_static_inwc", supplyStatic),
              Calc("pressure_difference_inwc", pressureDiff)>>,
            <<Check("pressure_balance", CheckResult(pressurePass, pressureDiff,
                LeqSign \o " " \o JsString(maxDiff) \o " in. w.c.",
                IF pressurePass THEN "Return/supply pressure difference within limits"
                ELSE "Excessive pressure imbalance detected")),
              Check("smoke_leaks", CheckResult(leakPass,
                Str(IF Truthy(Get(data, "smokeLeaksFound")) THEN "FOUND" ELSE "NONE"),
                "NONE",
                IF leakPass THEN "No smoke leaks detected"
                ELSE "Smoke leaks found at: "
                     \o (IF joined # "" THEN joined ELSE "unspecified locations")))>>,
            overallPass,
            IF overallPass THEN "Return/curb leakage test passed"
            ELSE "Return/curb leakage issues detected"))

\* String.prototype.toLowerCase, on the values of the plasticTest enum.
ToLowerCase(str) ==
  CASE str = "DRY" -> "dry"
    [] str = "CONDENSATION" -> "condensation"
    [] str = "DARKENING" -> "darkening"
    [] OTHER -> str

computeSlabWallMoisture(data) ==
  IF data = NullReading THEN TypeError
  ELSE LET plasticTest == Get(data, "plasticTest")
           pass == StrictEq(plasticTest, Str("DRY"))
       IN IF ~pass /\ plasticTest.t # "str" THEN TypeError
          ELSE Return(ComputedResult(
            <<>>,
            <<Check("plastic_test", CheckResult(pass, plasticTest, "DRY",
                IF pass THEN "No moisture issues detected under plastic test"
                ELSE "Moisture detected: " \o ToLowerCase(plasticTest.s)))>>,
            pass,
            IF pass THEN "No moisture issues detected"
            ELSE "Moisture issues detected: " \o ToLowerCase(plasticTest.s)))

computeAirflowStatic(data) ==
  IF data = NullReading THEN TypeError
  ELSE LET cfmPerTon == calculateCfmPerTon(Get(data, "supplyCFM"), Get(data, "tons"))
           cfmCheck == checkCfmPerTon(cfmPerTon)
           extStatic == Get(data, "extStatic_inwc")
           staticPass == Ge(extStatic, Num(3, 10)) /\ Le(extStatic, Num(15, 10))
       IN Return(ComputedResult(
            <<Calc("cfm_per_ton", cfmPerTon),
              Calc("supply_cfm", Get(data, "supplyCFM")),
              Calc("return_cfm", Or(Get(data, "returnCFM"), Whole(0))),
              Calc("external_static_inwc", extStatic)>>,
            <<Check("cfm_per_ton", cfmCheck),
              Check("external_static", CheckResult(staticPass, extStatic,
                "0.3 - 1.5 in. w.c.",
                IF staticPass THEN "External static pressure within normal range"
                ELSE IF Lt(extStatic, Num(3, 10))
                  THEN "External static pressure too low"
                ELSE "External static pressure too high - check for restrictions"))>>,
            cfmCheck.pass /\ staticPass,
            "CFM/ton: " \o ToFixed(cfmPerTon, 0) \o ", Static: "
              \o JsString(extStatic) \o "\" w.c."))

computeRefrigerantCircuit(data, outdoorTemp) ==
  IF data = NullReading THEN TypeError
  ELSE LET superheat == calculateSuperheat(Get(data, "suctionLineTemp_F"),
                                           Get(data, "suctionPSI"), "R-410A")
           subcooling == calculateSubcooling(Get(data, "liquidLineTemp_F"),
                                             Get(data, "liquidPSI"), "R-410A")
           shCheck == checkSuperheat(superheat, Or(outdoorTemp, Get(data, "outdoorDB_F")))
           scCheck == checkSubcooling(subcooling, Or(outdoorTemp, Get(data, "outdoorDB_F")))
       IN Return(ComputedResult(
            <<Calc("superheat_F", superheat),
              Calc("subcooling_F", subcooling),
              Calc("suction_psi", Get(data, "suctionPSI")),
              Calc("liquid_psi", Get(data, "liquidPSI")),
              Calc("suction_temp_F", Get(data, "suctionLineTemp_F")),
              Calc("liquid_temp_F", Get(data, "liquidLineTemp_F"))>>,
            <<Check("superheat", shCheck), Check("subcooling", scCheck)>>,
            shCheck.pass /\ scCheck.pass,
            "SH: " \o ToFixed(superheat, 1) \o "°F, SC: "
              \o ToFixed(subcooling, 1) \o "°F"))

\* A variant whose verdict also requires the humidity rise of the form.
computeCoilPerformance_HumidityRise(data) ==
  IF data = NullReading THEN TypeError
  ELSE LET returnDP == calculateDewPoint(Get(data, "returnDB_F"), Get(data, "returnRH_pct"))
           supplyDP == calculateDewPoint(Get(data, "supplyDB_F"), Get(data, "supplyRH_pct"))
           dewPointDrop == Sub(returnDP, supplyDP)
           tempDrop == Sub(Get(data, "returnDB_F"), Get(data, "supplyDB_F"))
           supplyDPCheck == checkSupplyDewPoint(supplyDP)
           tempDropPass == Ge(tempDrop, Whole(8)) /\ Le(tempDrop, Whole(25))
           rhRise == Sub(Get(data, "supplyRH_pct"), Get(data, "returnRH_pct"))
           rhPass == Ge(rhRise, Whole(10)) /\ Le(rhRise, Whole(40))
       IN Return(ComputedResult(
            <<Calc("return_dew_point_F", returnDP),
              Calc("supply_dew_point_F", supplyDP),
              Calc("dew_point_drop_F", dewPointDrop),
              Calc("temperature_drop_F", tempDrop),
              Calc("condensate_oz_per_30min",
                   Or(Get(data, "condensateVolume_oz_per_30min"), Whole(0)))>>,
            <<Check("supply_dew_point", supplyDPCheck),
              Check("temperature_drop", CheckResult(tempDropPass, tempDrop,
                "8 - 25°F",
                IF tempDropPass THEN "Temperature drop within normal range"
                ELSE IF Lt(tempDrop, Whole(8))
                  THEN "Insufficient cooling - check refrigerant charge"
                ELSE "Excessive temperature drop - check airflow"))>>,
            supplyDPCheck.pass /\ tempDropPass /\ rhPass,
            "Supply DP: " \o ToFixed(supplyDP, 1) \o "°F, " \o DeltaSign \o "T: "
              \o ToFixed(tempDrop, 1) \o "°F"))

computeCoilPerformance(data) ==
  IF data = NullReading THEN TypeError
  ELSE LET returnDP == calculateDewPoint(Get(data, "returnDB_F"), Get(data, "returnRH_pct"))
           supplyDP == calculateDewPoint(Get(data, "supplyDB_F"), Get(data, "supplyRH_pct"))
           dewPointDrop == Sub(returnDP, supplyDP)
           tempDrop == Sub(Get(data, "returnDB_F"), Get(data, "supplyDB_F"))
           supplyDPCheck == checkSupplyDewPoint(supplyDP)
           tempDropPass == Ge(tempDrop, Whole(8)) /\ Le(tempDrop, Whole(25))
       IN Return(ComputedResult(
            <<Calc("return_dew_point_F", returnDP),
              Calc("supply_dew_point_F", supplyDP),
              Calc("dew_point_drop_F", dewPointDrop),
              Calc("temperature_drop_F", tempDrop),
              Calc("condensate_oz_per_30min",
                   Or(Get(data, "condensateVolume_oz_per_30min"), Whole(0)))>>,
            <<Check("supply_dew_point", supplyDPCheck),
              Check("temperature_drop", CheckResult(tempDropPass, tempDrop,
                "8 - 25°F",
                IF tempDropPass THEN "Temperature drop within normal range"
                ELSE IF Lt(tempDrop, Whole(8))
                  THEN "Insufficient cooling - check refrigerant charge"
                ELSE "Excessive temperature drop - check airflow"))>>,
            supplyDPCheck.pass /\ tempDropPass,
            "Supply DP: " \o ToFixed(supplyDP, 1) \o "°F, " \o DeltaSign \o "T: "
              \o ToFixed(tempDrop, 1) \o "°F"))

computeFanEvapRecheck(data) ==
  IF data = NullReading THEN TypeError
  ELSE LET returnDP == calculateDewPoint(Get(data, "returnDB_F"), Get(data, "returnRH_pct"))
           supplyDP == calculateDewPoint(Get(data, "supplyDB_F"), Get(data, "supplyRH_pct"))
           supplyDPCheck == checkSupplyDewPoint(supplyDP)
           staticPressure == Get(data, "staticPressure_inwc")
           staticPass == Ge(staticPressure, Num(3, 10)) /\ Le(staticPressure, Num(15, 10))
       IN Return(ComputedResult(
            <<Calc("return_dew_point_F", returnDP),
              Calc("supply_dew_point_F", supplyDP),
              Calc("airflow_cfm", Get(data, "airflowCFM")),
              Calc("static_pressure_inwc", staticPressure)>>,
            <<Check("supply_dew_point", supplyDPCheck),
              Check("static_pressure", CheckResult(staticPass, staticPressure,
                "0.3 - 1.5 in. w.c.",
                IF staticPass THEN "Static pressure acceptable"
                ELSE "Static pressure out of range"))>>,
            supplyDPCheck.pass /\ staticPass,
            "Fan/evap recheck - Supply DP: " \o ToFixed(supplyDP, 1) \o "°F"))

\* A variant whose pass follows the leakage test alone, as the summary does.
EconomizerSealPass_LeakOnly(positionPass, leakPass) == leakPass

\* pass: positionPass && leakPass
EconomizerSealPass(positionPass, leakPass) == positionPass /\ leakPass

\* A variant whose damper check also requires that no leakage was observed.
computeEconomizerSeal_Coupled(data) ==
  IF data = NullReading THEN TypeError
  ELSE LET commandedPct == Get(data, "commandedPct")
           leakPass == ~Truthy(Get(data, "leakageObserved"))
           positionPass == Le(commandedPct, Whole(5)) /\ leakPass
           method == JsString(Get(data, "method"))
       IN Return(ComputedResult(
            <<Calc("commanded_position_pct", commandedPct)>>,
            <<Check("damper_position", CheckResult(positionPass, commandedPct, "0%",
                IF positionPass THEN "Economizer damper properly closed"
                ELSE "Economizer damper not fully closed")),
              Check("leakage_test", CheckResult(leakPass,
                Str(IF Truthy(Get(data, "leakageObserved")) THEN "OBSERVED" ELSE "NONE"),
                "NONE",
                IF leakPass THEN "No leakage observed (" \o method \o " test)"
                ELSE "Leakage observed during " \o method \o " test"))>>,
            EconomizerSealPass(positionPass, leakPass),
            IF leakPass THEN "Economizer seal test passed"
            ELSE "Economizer leakage detected"))

computeEconomizerSeal(data) ==
  IF data = NullReading THEN TypeError
  ELSE LET commandedPct == Get(data, "commandedPct")
           positionPass == Le(commandedPct, Whole(5))
           leakPass == ~Truthy(Get(data, "leakageObserved"))
           method == JsString(Get(data, "method"))
       IN Return(ComputedResult(
            <<Calc("commanded_position_pct", commandedPct)>>,
            <<Check("damper_position", CheckResult(positionPass, commandedPct, "0%",
                IF positionPass THEN "Economizer damper properly closed"
                ELSE "Economizer damper not fully closed")),
              Check("leakage_test", CheckResult(leakPass,
                Str(IF Truthy(Get(data, "leakageObserved")) THEN "OBSERVED" ELSE "NONE"),
                "NONE",
                IF leakPass THEN "No leakage observed (" \o method \o " test)"
                ELSE "Leakage observed during " \o method \o " test"))>>,
            EconomizerSealPass(positionPass, leakPass),
            IF leakPass THEN "Economizer seal test passed"
            ELSE "Economizer leakage detected"))

\* data.gridSamples.map(s => s.db_F) and the like.
RECURSIVE MapField(_, _)
MapField(samples, f) ==
  IF samples = <<>> THEN <<>>
  ELSE <<Get(samples[1], f)>> \o MapField(Tail(samples), f)

RECURSIVE MapDewPoint(_)
MapDewPoint(samples) ==
  IF samples = <<>> THEN <<>>
  ELSE <<calculateDewPoint(Get(samples[1], "db_F"), Get(samples[1], "rh_pct"))>>
       \o MapDewPoint(Tail(samples))

computeDistributionMixing(data) ==
  IF data = NullReading \/ "gridSamples" \notin DOMAIN data THEN TypeError
  ELSE LET gridSamples == data["gridSamples"]
           tempStats == calculateStats(MapField(gridSamples, "db_F"))
           rhStats == calculateStats(MapField(gridSamples, "rh_pct"))
           dpStats == calculateStats(MapDewPoint(gridSamples))
           tempVariation == Sub(tempStats.max, tempStats.min)
           rhVariation == Sub(rhStats.max, rhStats.min)
           tempVariationPass == Le(tempVariation, Whole(5))
           rhVariationPass == Le(rhVariation, Whole(10))
       IN Return(ComputedResult(
            <<Calc("temp_min_F", tempStats.min),
              Calc("temp_max_F", tempStats.max),
              Calc("temp_avg_F", tempStats.avg),
              Calc("temp_variation_F", tempVariation),
              Calc("rh_min_pct", rhStats.min),
              Calc("rh_max_pct", rhStats.max),
              Calc("rh_avg_pct", rhStats.avg),
              Calc("rh_variation_pct", rhVariation),
              Calc("dp_min_F", dpStats.min),
              Calc("dp_max_F", dpStats.max),
              Calc("dp_avg_F", dpStats.avg),
              Calc("return_dp_F", Get(data, "returnDewPoint_F"))>>,
            <<Check("temperature_mixing", CheckResult(tempVariationPass, tempVariation,
                LeqSign \o " 5°F variation",
                IF tempVariationPass THEN "Good temperature mixing achieved"
                ELSE "Poor temperature mixing - check airflow distribution")),
              Check("humidity_mixing", CheckResult(rhVariationPass, rhVariation,
                LeqSign \o " 10% RH variation",
                IF rhVariationPass THEN "Good humidity mixing achieved"
                ELSE "Poor humidity mixing - check airflow distribution"))>>,
            tempVariationPass /\ rhVariationPass,
            "Zone mixing - " \o DeltaSign \o "T: " \o ToFixed(tempVariation, 1)
              \o "°F, " \o DeltaSign \o "RH: " \o ToFixed(rhVariation, 1) \o "%"))

\* The ten members of the TestType enum (the testType enum of
\* CreateTestResultSchema).
TestTypes ==
  <<"BUILDING_PRESSURE", "PRESSURE_DECAY", "RETURN_CURB_LEAKAGE",
    "SLAB_WALL_MOISTURE", "AIRFLOW_STATIC", "REFRIGERANT_CIRCUIT",
    "COIL_PERFORMANCE", "FAN_EVAP_RECHECK", "ECONOMIZER_SEAL",
    "DISTRIBUTION_MIXING">>

RecognizedTypes == {TestTypes[i] : i \in DOMAIN TestTypes}

\* A variant of the default branch that returns an empty result.
UnknownTestType_EmptyResult(tt) ==
  Return(ComputedResult(<<>>, <<>>, TRUE, "Unknown test type: " \o tt))

\* default: throw new Error(`Unknown test type: ${testType}`)
UnknownTestType(tt) == Throw("Unknown test type: " \o tt)

\* A variant that keeps the outdoor temperature of the invocation before it
\* in a module-level variable and prefers it to its own argument.
computeTestResult_StickyWeather(tt, rd, weather) ==
  CASE tt = "BUILDING_PRESSURE" -> computeBuildingPressure(rd)
    [] tt = "PRESSURE_DECAY" -> computePressureDecay(rd)
    [] tt = "RETURN_CURB_LEAKAGE" -> computeReturnCurbLeakage(rd)
    [] tt = "SLAB_WALL_MOISTURE" -> computeSlabWallMoisture(rd)
    [] tt = "AIRFLOW_STATIC" -> computeAirflowStatic(rd)
    [] tt = "REFRIGERANT_CIRCUIT" ->
         computeRefrigerantCircuit(rd,
           IF calls # <<>> THEN calls[Len(calls)].weather.outdoorTemp
           ELSE weather.outdoorTemp)
    [] tt = "COIL_PERFORMANCE" -> computeCoilPerformance(rd)
    [] tt = "FAN_EVAP_RECHECK" -> computeFanEvapRecheck(rd)
    [] tt = "ECONOMIZER_SEAL" -> computeEconomizerSeal(rd)
    [] tt = "DISTRIBUTION_MIXING" -> computeDistributionMixing(rd)
    [] OTHER -> UnknownTestType(tt)

\* A variant that falls back on the outdoor relative humidity when the
\* weather has no outdoor temperature.
computeTestResult_HumidityFallback(tt, rd, weather) ==
  CASE tt = "BUILDING_PRESSURE" -> computeBuildingPressure(rd)
    [] tt = "PRESSURE_DECAY" -> computePressureDecay(rd)
    [] tt = "RETURN_CURB_LEAKAGE" -> computeReturnCurbLeakage(rd)
    [] tt = "SLAB_WALL_MOISTURE" -> computeSlabWallMoisture(rd)
    [] tt = "AIRFLOW_STATIC" -> computeAirflowStatic(rd)
    [] tt = "REFRIGERANT_CIRCUIT" ->
         computeRefrigerantCircuit(rd, Or(weather.outdoorTemp, weather.outdoorRH))
    [] tt = "COIL_PERFORMANCE" -> computeCoilPerformance(rd)
    [] tt = "FAN_EVAP_RECHECK" -> computeFanEvapRecheck(rd)
    [] tt = "ECONOMIZER_SEAL" -> computeEconomizerSeal(rd)
    [] tt = "DISTRIBUTION_MIXING" -> computeDistributionMixing(rd)
    [] OTHER -> UnknownTestType(tt)

\* computeTestResult(testType, reading, weatherData)
computeTestResult(tt, rd, weather) ==
  CASE tt = "BUILDING_PRESSURE" -> computeBuildingPressure(rd)
    [] tt = "PRESSURE_DECAY" -> computePressureDecay(rd)
    [] tt = "RETURN_CURB_LEAKAGE" -> computeReturnCurbLeakage(rd)
    [] tt = "SLAB_WALL_MOISTURE" -> computeSlabWallMoisture(rd)
    [] tt = "AIRFLOW_STATIC" -> computeAirflowStatic(rd)
    [] tt = "REFRIGERANT_CIRCUIT" -> computeRefrigerantCircuit(rd, weather.outdoorTemp)
    [] tt = "COIL_PERFORMANCE" -> computeCoilPerformance(rd)
    [] tt = "FAN_EVAP_RECHECK" -> computeFanEvapRecheck(rd)
    [] tt = "ECONOMIZER_SEAL" -> computeEconomizerSeal(rd)
    [] tt = "DISTRIBUTION_MIXING" -> computeDistributionMixing(rd)
    [] OTHER -> UnknownTestType(tt)

----------------------------------------------------------------------------
(* CoilPerformanceForm: the live result of the interactive form            *)

\* useState<any>(null) and what setComputed stores.
NoComputed == [shown |-> FALSE, value |-> NoValue]
SetComputed(v) == [shown |-> TRUE, value |-> v]

\* No form is open.
FormIdle == computed = NoComputed

\* The effect on the watched values: a result when all four temperature and
\* humidity inputs are above 0, null otherwise.
CoilPerformanceForm(watchedValues) ==
  LET returnDB_F == Get(watchedValues, "returnDB_F")
      returnRH_pct == Get(watchedValues, "returnRH_pct")
      supplyDB_F == Get(watchedValues, "supplyDB_F")
      supplyRH_pct == Get(watchedValues, "supplyRH_pct")
  IN IF /\ Gt(returnDB_F, Whole(0)) /\ Gt(returnRH_pct, Whole(0))
        /\ Gt(supplyDB_F, Whole(0)) /\ Gt(supplyRH_pct, Whole(0))
     THEN LET returnDP == calculateDewPoint(returnDB_F, returnRH_pct)
              supplyDP == calculateDewPoint(supplyDB_F, supplyRH_pct)
              dewPointDrop == Sub(returnDP, supplyDP)
              tempDrop == Sub(returnDB_F, supplyDB_F)
              supplyDPCheck == checkSupplyDewPoint(supplyDP)
              tempDropPass == Ge(tempDrop, Whole(8)) /\ Le(tempDrop, Whole(25))
              rhRise == Sub(supplyRH_pct, returnRH_pct)
              rhPass == Ge(rhRise, Whole(10)) /\ Le(rhRise, Whole(40))
          IN SetComputed(ComputedResult(
               <<Calc("return_dew_point_F", returnDP),
                 Calc("supply_dew_point_F", supplyDP),
                 Calc("dew_point_drop_F", dewPointDrop),
                 Calc("temperature_drop_F", tempDrop),
                 Calc("humidity_rise_pct", rhRise),
                 Calc("condensate_oz_per_30min",
                      Or(Get(watchedValues, "condensateVolume_oz_per_30min"), Whole(0)))>>,
               <<Check("supply_dew_point", supplyDPCheck),
                 Check("temperature_drop", CheckResult(tempDropPass, tempDrop,
                   "8 - 25°F",
                   IF tempDropPass THEN "Temperature drop within normal range"
                   ELSE IF Lt(tempDrop, Whole(8))
                     THEN "Insufficient cooling - check refrigerant charge"
                   ELSE "Excessive temperature drop - check airflow")),
                 Check("humidity_performance", CheckResult(rhPass, rhRise,
                   "10 - 40% RH rise",
                   IF rhPass THEN "Good dehumidification performance"
                   ELSE IF Lt(rhRise, Whole(10))
                     THEN "Low humidity removal - coil may not be cold enough"
                   ELSE "Excessive humidity rise - possible airflow issue"))>>,
               supplyDPCheck.pass /\ tempDropPass /\ rhPass,
               "Supply DP: " \o ToFixed(supplyDP, 1) \o "°F, " \o DeltaSign \o "T: "
                 \o ToFixed(tempDrop, 1) \o "°F, " \o DeltaSign \o "RH: +"
                 \o ToFixed(rhRise, 1) \o "%"))
     ELSE NoComputed

----------------------------------------------------------------------------
(* lib/schemas.ts: the ranges of the per-test-type reading schemas         *)

InRange(v, lo, hi) == v.t = "num" /\ Ge(v, Whole(lo)) /\ Le(v, Whole(hi))

temperatureSchema(v) == InRange(v, -40, 150)
humiditySchema(v) == InRange(v, 0, 100)
pressureSchema(v) == InRange(v, -10, 10)
cfmSchema(v) == InRange(v, 0, 50000)
psiSchema(v) == InRange(v, 0, 1000)

Has(data, fields) == data # NullReading /\ fields \subseteq DOMAIN data

RECURSIVE AllSamplesValid(_)
AllSamplesValid(samples) ==
  samples = <<>> \/ ( /\ {"db_F", "rh_pct"} \subseteq DOMAIN samples[1]
                      /\ temperatureSchema(samples[1]["db_F"])
                      /\ humiditySchema(samples[1]["rh_pct"])
                      /\ AllSamplesValid(Tail(samples)) )

\* The reading parses under the schema of its test type, as far as the
\* properties the engine reads are concerned.
SchemaValid(tt, data) ==
  CASE tt = "BUILDING_PRESSURE" ->
         Has(data, {"deltaP_inwc"}) /\ pressureSchema(data["deltaP_inwc"])
    [] tt = "PRESSURE_DECAY" ->
         /\ Has(data, {"startDeltaP", "endDeltaP", "decaySeconds"})
         /\ pressureSchema(data["startDeltaP"])
         /\ pressureSchema(data["endDeltaP"])
         /\ InRange(data["decaySeconds"], 0, 3600)
    [] tt = "RETURN_CURB_LEAKAGE" ->
         /\ Has(data, {"returnStatic_inwc", "supplyStatic_inwc", "smokeLeaksFound"})
         /\ pressureSchema(data["returnStatic_inwc"])
         /\ pressureSchema(data["supplyStatic_inwc"])
         /\ data["smokeLeaksFound"].t = "bool"
    [] tt = "SLAB_WALL_MOISTURE" ->
         /\ Has(data, {"plasticTest"})
         /\ data["plasticTest"] \in {Str("DRY"), Str("CONDENSATION"), Str("DARKENING")}
    [] tt = "AIRFLOW_STATIC" ->
         /\ Has(data, {"tons", "supplyCFM", "extStatic_inwc"})
         /\ data["tons"].t = "num"
         /\ Ge(data["tons"], Num(1, 2)) /\ Le(data["tons"], Whole(200))
         /\ cfmSchema(data["supplyCFM"])
         /\ ("returnCFM" \in DOMAIN data => cfmSchema(data["returnCFM"]))
         /\ pressureSchema(data["extStatic_inwc"])
    [] tt = "REFRIGERANT_CIRCUIT" ->
         /\ Has(data, {"outdoorDB_F", "suctionPSI", "liquidPSI",
                       "suctionLineTemp_F", "liquidLineTemp_F"})
         /\ temperatureSchema(data["outdoorDB_F"])
         /\ psiSchema(data["suctionPSI"]) /\ psiSchema(data["liquidPSI"])
         /\ temperatureSchema(data["suctionLineTemp_F"])
         /\ temperatureSchema(data["liquidLineTemp_F"])
    [] tt = "COIL_PERFORMANCE" ->
         /\ Has(data, {"returnDB_F", "returnRH_pct", "supplyDB_F", "supplyRH_pct"})
         /\ temperatureSchema(data["returnDB_F"]) /\ humiditySchema(data["returnRH_pct"])
         /\ temperatureSchema(data["supplyDB_F"]) /\ humiditySchema(data["supplyRH_pct"])
         /\ ("condensateVolume_oz_per_30min" \in DOMAIN data
               => InRange(data["condensateVolume_oz_per_30min"], 0, 1000))
    [] tt = "FAN_EVAP_RECHECK" ->
         /\ Has(data, {"returnDB_F", "returnRH_pct", "supplyDB_F", "supplyRH_pct",
                       "airflowCFM", "staticPressure_inwc"})
         /\ temperatureSchema(data["returnDB_F"]) /\ humiditySchema(data["returnRH_pct"])
         /\ temperatureSchema(data["supplyDB_F"]) /\ humiditySchema(data["supplyRH_pct"])
         /\ cfmSchema(data["airflowCFM"])
         /\ pressureSchema(data["staticPressure_inwc"])
    [] tt = "ECONOMIZER_SEAL" ->
         /\ Has(data, {"commandedPct", "leakageObserved", "method"})
         /\ InRange(data["commandedPct"], 0, 100)
         /\ data["leakageObserved"].t = "bool"
         /\ data["method"] \in {Str("SMOKE"), Str("VISUAL")}
    [] tt = "DISTRIBUTION_MIXING" ->
         /\ Has(data, {"gridSamples", "returnDewPoint_F"})
         /\ Len(data["gridSamples"]) >= 1
         /\ AllSamplesValid(data["gridSamples"])
         /\ temperatureSchema(data["returnDewPoint_F"])
    [] OTHER -> FALSE

----------------------------------------------------------------------------
(* The invocations explored                                                *)

\* Largest number of grid samples of a DISTRIBUTION_MIXING reading.
MaxGrid == 3

\* The reading r without its property f.
Without(r, f) == [g \in (DOMAIN r) \ {f} |-> r[g]]

\* Every reading of `full` with one of its properties missing.
OneMissing(full) == UNION {{Without(r, f) : f \in DOMAIN r} : r \in full}

BuildingPressureReadings ==
  {[deltaP_inwc |-> v] :
     v \in {Whole(-10), Whole(0), Num(19, 1000), Num(2, 100), Num(35, 1000),
            Num(5, 100), Num(51, 1000), Num(8, 100), Whole(10)}}

PressureDecayReadings ==
  {[startDeltaP |-> a, endDeltaP |-> b, decaySeconds |-> c] :
     a \in {Whole(0), Num(5, 100), Num(-5, 100)},
     b \in {Whole(0), Num(1, 100), Num(4, 100), Num(6, 100)},
     c \in {Whole(0), Whole(60), Whole(300), Whole(3600)}}

ReturnCurbLeakageBase ==
  {[returnStatic_inwc |-> a, supplyStatic_inwc |-> b, smokeLeaksFound |-> Bool(c)] :
     a \in {Num(-5, 10), Whole(0), Num(2, 10)},
     b \in {Num(1, 10), Num(3, 10), Num(31, 100)},
     c \in BOOLEAN}

ReturnCurbLeakageReadings ==
  ReturnCurbLeakageBase \cup
  {r @@ [leakLocations |-> l] :
     r \in ReturnCurbLeakageBase,
     l \in {<<>>, <<"">>, <<"north curb">>, <<"north curb", "return duct">>}}

SlabWallMoistureReadings ==
  {[plasticTest |-> Str(v)] : v \in {"DRY", "CONDENSATION", "DARKENING"}}

AirflowStaticBase ==
  {[tons |-> a, supplyCFM |-> b, extStatic_inwc |-> c] :
     a \in {Whole(0), Num(1, 2), Whole(2), Whole(5), Whole(200)},
     b \in {Whole(0), Whole(699), Whole(700), Whole(800), Whole(801), Whole(2000),
            Whole(50000)},
     c \in {Whole(-10), Num(29, 100), Num(3, 10), Num(15, 10), Num(151, 100)}}

AirflowStaticReadings ==
  AirflowStaticBase \cup
  {r @@ [returnCFM |-> v] :
     r \in {b \in AirflowStaticBase : b.tons = Whole(2)}, v \in {Whole(0), Whole(700)}}

\* <<line temperature, pressure>>: superheat 7, 11, 13, 16 and 45 - 134.4;
\* subcooling 7, 9, 11, 16 and 234 - 85.
SuctionPairs ==
  {<<Whole(127), Whole(100)>>, <<Whole(131), Whole(100)>>, <<Whole(133), Whole(100)>>,
   <<Whole(136), Whole(100)>>, <<Whole(45), Whole(118)>>}
LiquidPairs ==
  {<<Whole(113), Whole(100)>>, <<Whole(111), Whole(100)>>, <<Whole(109), Whole(100)>>,
   <<Whole(104), Whole(100)>>, <<Whole(85), Whole(285)>>}

OutdoorTemps ==
  {Whole(0), Whole(75), Num(7999, 100), Whole(80), Whole(95), Whole(100),
   Num(10001, 100), Whole(105)}

RefrigerantCircuitReadings ==
  {[outdoorDB_F |-> o, suctionLineTemp_F |-> sp[1], suctionPSI |-> sp[2],
    liquidLineTemp_F |-> lp[1], liquidPSI |-> lp[2]] :
     o \in OutdoorTemps, sp \in SuctionPairs, lp \in LiquidPairs}

CoilPerformanceBase ==
  {[returnDB_F |-> a, returnRH_pct |-> b, supplyDB_F |-> c, supplyRH_pct |-> d] :
     a \in {Whole(75), Whole(84)},
     b \in {Whole(0), Whole(55)},
     c \in {Whole(50), Whole(58), Whole(59), Whole(67), Whole(76)},
     d \in {Whole(0), Whole(85), Whole(100)}}

CoilPerformanceReadings ==
  CoilPerformanceBase \cup
  {r @@ [condensateVolume_oz_per_30min |-> Whole(12)] :
     r \in {b \in CoilPerformanceBase : b.returnDB_F = Whole(75)}}

FanEvapRecheckReadings ==
  {[returnDB_F |-> Whole(75), returnRH_pct |-> b, supplyDB_F |-> c, supplyRH_pct |-> d,
    airflowCFM |-> Whole(1200), staticPressure_inwc |-> e] :
     b \in {Whole(0), Whole(55)},
     c \in {Whole(50), Whole(58), Whole(67)},
     d \in {Whole(0), Whole(85)},
     e \in {Num(29, 100), Num(3, 10), Num(15, 10), Num(151, 100)}}

EconomizerSealReadings ==
  {[commandedPct |-> a, leakageObserved |-> Bool(b), method |-> Str(c)] :
     a \in {Whole(0), Whole(5), Num(51, 10), Whole(100)},
     b \in BOOLEAN,
     c \in {"SMOKE", "VISUAL"}}

GridSample ==
  {[db_F |-> Whole(70), rh_pct |-> Whole(45)],
   [db_F |-> Whole(74), rh_pct |-> Whole(50)],
   [db_F |-> Whole(75), rh_pct |-> Whole(56)],
   [db_F |-> Whole(76), rh_pct |-> Whole(0)]}

\* The arrays of 0 .. MaxGrid samples (an empty array fails the schema).
GridSamples == UNION {[1 .. n -> GridSample] : n \in 0 .. MaxGrid}

DistributionMixingReadings ==
  {[gridSamples |-> g, returnDewPoint_F |-> Whole(55)] : g \in GridSamples}

FullReadings(tt) ==
  CASE tt = "BUILDING_PRESSURE" -> BuildingPressureReadings
    [] tt = "PRESSURE_DECAY" -> PressureDecayReadings
    [] tt = "RETURN_CURB_LEAKAGE" -> ReturnCurbLeakageReadings
    [] tt = "SLAB_WALL_MOISTURE" -> SlabWallMoistureReadings
    [] tt = "AIRFLOW_STATIC" -> AirflowStaticReadings
    [] tt = "REFRIGERANT_CIRCUIT" -> RefrigerantCircuitReadings
    [] tt = "COIL_PERFORMANCE" -> CoilPerformanceReadings
    [] tt = "FAN_EVAP_RECHECK" -> FanEvapRecheckReadings
    [] tt = "ECONOMIZER_SEAL" -> EconomizerSealReadings
    [] tt = "DISTRIBUTION_MIXING" -> DistributionMixingReadings
    [] OTHER -> BuildingPressureReadings

\* One reading of each type that passes every check of its type.
TypicalReading(tt) ==
  CASE tt = "BUILDING_PRESSURE" -> [deltaP_inwc |-> Num(35, 1000)]
    [] tt = "PRESSURE_DECAY" ->
         [startDeltaP |-> Num(5, 100), endDeltaP |-> Num(4, 100),
          decaySeconds |-> Whole(300)]
    [] tt = "RETURN_CURB_LEAKAGE" ->
         [returnStatic_inwc |-> Num(2, 10), supplyStatic_inwc |-> Num(3, 10),
          smokeLeaksFound |-> Bool(FALSE), leakLocations |-> <<>>]
    [] tt = "SLAB_WALL_MOISTURE" -> [plasticTest |-> Str("DRY")]
    [] tt = "AIRFLOW_STATIC" ->
         [tons |-> Whole(2), supplyCFM |-> Whole(700), returnCFM |-> Whole(700),
          extStatic_inwc |-> Num(3, 10)]
    [] tt = "REFRIGERANT_CIRCUIT" ->
         [outdoorDB_F |-> Whole(95), suctionLineTemp_F |-> Whole(131),
          suctionPSI |-> Whole(100), liquidLineTemp_F |-> Whole(109),
          liquidPSI |-> Whole(100)]
    [] tt = "COIL_PERFORMANCE" ->
         [returnDB_F |-> Whole(75), returnRH_pct |-> Whole(55),
          supplyDB_F |-> Whole(58), supplyRH_pct |-> Whole(85),
          condensateVolume_oz_per_30min |-> Whole(12)]
    [] tt = "FAN_EVAP_RECHECK" ->
         [returnDB_F |-> Whole(75), returnRH_pct |-> Whole(55),
          supplyDB_F |-> Whole(58), supplyRH_pct |-> Whole(85),
          airflowCFM |-> Whole(1200), staticPressure_inwc |-> Num(3, 10)]
    [] tt = "ECONOMIZER_SEAL" ->
         [commandedPct |-> Whole(0), leakageObserved |-> Bool(FALSE),
          method |-> Str("SMOKE")]
    [] OTHER ->
         [gridSamples |-> <<[db_F |-> Whole(74), rh_pct |-> Whole(50)],
                            [db_F |-> Whole(75), rh_pct |-> Whole(56)]>>,
          returnDewPoint_F |-> Whole(55)]

\* The readings an invocation may be given: those of the type's schema, a
\* typical one with one property missing, and no reading at all.  (The
\* reading of a request is not validated: schemas.ts declares it z.any().)
Readings(tt) ==
  IF tt \in RecognizedTypes
  THEN FullReadings(tt) \cup OneMissing({TypicalReading(tt)}) \cup {NullReading}
  ELSE {TypicalReading("BUILDING_PRESSURE"), NullReading}

\* weatherData: the session's outdoor dry bulb and relative humidity, each
\* undefined when the session has none.
Weathers ==
  [outdoorTemp : {Undefined} \cup OutdoorTemps, outdoorRH : {Undefined, Whole(50)}]

\* Discriminants outside the TestType enum.
UnknownTypes == {"DUCT_LEAKAGE", "building_pressure", ""}

----------------------------------------------------------------------------
(* Specification of a single invocation of the engine                      *)

Pending == Return(NoValue)
NoCheck == [name |-> "", value |-> Undefined, outdoorTemp |-> Undefined]
NoCheckResult == CheckResult(FALSE, Undefined, "", "")
NoRequest ==
  [user |-> "", parsed |-> TRUE, sessionId |-> "", unitId |-> "", testType |-> "",
   reading |-> NullReading]
NoResponse == [status |-> 0, error |-> "", testResultId |-> 0]

NoCalc == [name |-> "", args |-> <<>>]
NoCalcResult == Undefined

NoQuery == [user |-> "", route |-> "", sessionId |-> "", unitId |-> "", testType |-> ""]
NoStatistics ==
  [passFailStats |-> [pass |-> 0, fail |-> 0, pending |-> 0], completionRate |-> 0]
NoView ==
  [status |-> 0, error |-> "", testResults |-> <<>>, statistics |-> NoStatistics]

\* No GET request has been handled.
GetIdle ==
  /\ query = NoQuery
  /\ view = NoView

\* The tables written by the handlers of projects, reports and files.
ProjectsIdle == projects = <<>> /\ memberships = {}
ReportsIdle == reports = <<>> /\ handlers = <<>>
FilesIdle == files = {} /\ objects = {}

ApiIdle ==
  /\ testResults = <<>>
  /\ request = NoRequest
  /\ response = NoResponse
  /\ GetIdle
  /\ ProjectsIdle
  /\ ReportsIdle
  /\ FilesIdle
  /\ FormIdle

\* No invocation has been recorded and no calculation primitive is invoked.
LibIdle ==
  /\ calls = <<>>
  /\ calc = NoCalc
  /\ calcResult = NoCalcResult

EngineInit ==
  /\ pc = "call"
  /\ testType \in RecognizedTypes \cup UnknownTypes
  /\ reading \in Readings(testType)
  /\ weatherData \in Weathers
  /\ result = Pending
  /\ chk = NoCheck
  /\ chkResult = NoCheckResult
  /\ ApiIdle
  /\ LibIdle

\* computeTestResult(testType, reading, weatherData) runs to its return or throw.
Invoke ==
  /\ pc = "call"
  /\ result' = computeTestResult(testType, reading, weatherData)
  /\ pc' = "returned"
  /\ UNCHANGED <<testType, reading, weatherData, chk, chkResult,
                 testResults, request, response, calls, calc, calcResult,
                 handlerVars, computed>>

EngineNext == Invoke

EngineSpec == EngineInit /\ [][EngineNext]_vars

----------------------------------------------------------------------------
(* Specification of a single invocation of a threshold check               *)

CheckNames ==
  {"building_pressure", "cfm_per_ton", "supply_dew_point", "superheat", "subcooling"}

\* The values a check is given: around each end of its ranges, and NaN (what
\* a missing property or a dew point at 0 % relative humidity yields).
CheckValues(name) ==
  CASE name = "building_pressure" ->
         {NaN, Whole(-10), Whole(0), Num(19, 1000), Num(2, 100), Num(35, 1000),
          Num(5, 100), Num(51, 1000), Num(8, 100)}
    [] name = "cfm_per_ton" ->
         {NaN, Whole(0), Num(3499, 10), Whole(350), Whole(375), Whole(400),
          Num(4001, 10), Whole(100000)}
    [] name = "supply_dew_point" ->
         {NaN, Whole(-105), Num(4999, 100), Whole(50), Num(535, 10), Whole(55),
          Num(5501, 100), Whole(150)}
    [] OTHER ->
         {NaN, Num(-894, 10), Num(59, 10), Whole(6), Num(79, 10), Whole(8),
          Num(99, 10), Whole(10), Whole(12), Num(121, 10), Whole(15),
          Num(151, 10), Whole(18), Num(181, 10), Whole(149)}

\* The outdoorTemp argument: omitted, or a temperature of the schema.
CheckOutdoorTemps(name) ==
  IF name \in {"superheat", "subcooling"}
  THEN {Undefined, Whole(-40), Whole(0), Num(7999, 100), Whole(80), Num(8001, 100),
        Whole(95), Num(9999, 100), Whole(100), Num(10001, 100), Whole(150)}
  ELSE {Undefined}

ChecksInit ==
  /\ pc = "call"
  /\ chk \in {[name |-> nm, value |-> v, outdoorTemp |-> o] :
                nm \in CheckNames, v \in UNION {CheckValues(x) : x \in CheckNames},
                o \in CheckOutdoorTemps("superheat")}
  /\ chk.value \in CheckValues(chk.name)
  /\ chk.outdoorTemp \in CheckOutdoorTemps(chk.name)
  /\ chkResult = NoCheckResult
  /\ testType = ""
  /\ reading = NullReading
  /\ weatherData = [outdoorTemp |-> Undefined, outdoorRH |-> Undefined]
  /\ result = Pending
  /\ ApiIdle
  /\ LibIdle

\* The exported check of that name, applied to the arguments.
ApplyCheck ==
  /\ pc = "call"
  /\ chkResult' =
       CASE chk.name = "building_pressure" -> checkBuildingPressure(chk.value)
         [] chk.name = "cfm_per_ton" -> checkCfmPerTon(chk.value)
         [] chk.name = "supply_dew_point" -> checkSupplyDewPoint(chk.value)
         [] chk.name = "superheat" -> checkSuperheat(chk.value, chk.outdoorTemp)
         [] OTHER -> checkSubcooling(chk.value, chk.outdoorTemp)
  /\ pc' = "returned"
  /\ UNCHANGED <<testType, reading, weatherData, result, chk,
                 testResults, request, response, calls, calc, calcResult,
                 handlerVars, computed>>

ChecksNext == ApplyCheck

ChecksSpec == ChecksInit /\ [][ChecksNext]_vars

-----------------------------------------------------------------------------
(* POST /api/tests (app/api/tests/route.ts) over a small database          *)

MaxTests == 2

Null == [t |-> "null", n |-> 0, d |-> 1, s |-> ""]

\* a ?? b
NullishCoalesce(a, b) == IF a.t \in {"null", "undef"} THEN b ELSE a

\* The callers: no login at all, a login whose user row is gone, and four
\* users of the database.
Anonymous == "anonymous"
Ghost == "ghost@example.com"
Users == {"alice@example.com", "bob@example.com", "carol@example.com",
          "dave@example.com"}

\* membership.role of the user in the project; "" when there is no row.
MembershipRole(user, projectId) ==
  CASE projectId = "cproject0001" /\ user = "alice@example.com" -> "OWNER"
    [] projectId = "cproject0001" /\ user = "bob@example.com" -> "EDITOR"
    [] projectId = "cproject0001" /\ user = "carol@example.com" -> "VIEWER"
    [] projectId = "cproject0002" /\ user = "dave@example.com" -> "OWNER"
    [] OTHER -> ""

\* The session rows: the project of the session's area and its weather.
Sessions ==
  {[id |-> "csession0001", projectId |-> "cproject0001",
    weatherOADryBulb |-> Whole(105), weatherOARH |-> Null],
   [id |-> "csession0002", projectId |-> "cproject0002",
    weatherOADryBulb |-> Null, weatherOARH |-> Null]}

\* The ids of the HVAC unit rows.
HvacUnits == {"chvacunit0001"}

\* The value of an optional property the body leaves out.
Absent == "(absent)"

\* z.string().cuid(): a "c" followed by eight or more characters.
IsCuid(id) ==
  id \in {"csession0001", "csession0002", "csession0009", "chvacunit0001",
         "chvacunit0009"}

\* authenticate(request): the status of its error, 0 when it yields a user.
authenticate(user) ==
  IF user = Anonymous THEN [status |-> 401, error |-> "Unauthorized"]
  ELSE IF user \notin Users THEN [status |-> 401, error |-> "User not found"]
  ELSE [status |-> 0, error |-> ""]

RoleIndex(role) ==
  CASE role = "VIEWER" -> 0 [] role = "EDITOR" -> 1 [] role = "OWNER" -> 2
    [] OTHER -> -1

checkProjectAccess(userId, projectId, requiredRole) ==
  LET role == MembershipRole(userId, projectId)
  IN IF role = "" THEN FALSE
     ELSE RoleIndex(role) >= RoleIndex(requiredRole)

\* CreateTestResultSchema.safeParse(body).success; reading is z.any().
CreateTestResultSchema(body) ==
  /\ IsCuid(body.sessionId)
  /\ body.unitId = Absent \/ IsCuid(body.unitId)
  /\ body.testType \in RecognizedTypes

\* A variant of the try/catch below that records a thrown computation as a
\* failed test.
Attempt_FailOnThrow(computation) ==
  IF computation.threw
  THEN [computed |-> NoValue, hasComputed |-> FALSE, pass |-> Bool(FALSE)]
  ELSE [computed |-> computation.value, hasComputed |-> TRUE,
        pass |-> Bool(computation.value.pass)]

\* let computed = undefined; let pass = undefined
\* try { computed = computation; pass = computation.pass } catch { }
Attempt(computation) ==
  IF computation.threw
  THEN [computed |-> NoValue, hasComputed |-> FALSE, pass |-> Undefined]
  ELSE [computed |-> computation.value, hasComputed |-> TRUE,
        pass |-> Bool(computation.value.pass)]

\* The weatherData the handler builds from the session row.
SessionWeather(session) ==
  [outdoorTemp |-> NullishCoalesce(session.weatherOADryBulb, Undefined),
   outdoorRH |-> NullishCoalesce(session.weatherOARH, Undefined)]

Reject(status, error) == [status |-> status, error |-> error, testResultId |-> 0]

\* The bodies sent: a passing reading, one that passes at the default 95 F
\* and fails in the session's weather, one whose computation throws, and
\* one whose testType is outside the enum.
Bodies ==
  {[testType |-> "BUILDING_PRESSURE", reading |-> TypicalReading("BUILDING_PRESSURE")],
   [testType |-> "REFRIGERANT_CIRCUIT",
    reading |-> [TypicalReading("REFRIGERANT_CIRCUIT") EXCEPT
                   !.suctionLineTemp_F = Whole(134)]],
   [testType |-> "DISTRIBUTION_MIXING", reading |-> [returnDewPoint_F |-> Whole(55)]],
   [testType |-> "DUCT_LEAKAGE", reading |-> TypicalReading("BUILDING_PRESSURE")]}

\* The requests sent: for the first session every body without a unit, for
\* every session the first body without a unit, with a unit that exists and
\* with one that does not, and a body that is not JSON (parsed is FALSE:
\* request.json() throws).
Requests ==
  {[user |-> u, parsed |-> TRUE, sessionId |-> sub[1], unitId |-> sub[2],
    testType |-> sub[3].testType, reading |-> sub[3].reading] :
     u \in {Anonymous, Ghost} \cup Users,
     sub \in {x \in {"csession0001", "csession0002", "csession0009", "not a cuid"}
                     \X {Absent, "chvacunit0001", "chvacunit0009"} \X Bodies :
               \/ x[3].testType = "BUILDING_PRESSURE"
               \/ x[1] = "csession0001" /\ x[2] = Absent}}
  \cup
  {[user |-> u, parsed |-> FALSE, sessionId |-> Absent, unitId |-> Absent,
    testType |-> "", reading |-> NullReading] :
     u \in {Anonymous, Ghost} \cup Users}

\* The row db.testResult.create inserts: the fields of the request with the
\* computed result and pass of the attempt.
CreatedRow(req, session, id) ==
  [id |-> id, sessionId |-> req.sessionId, unitId |-> req.unitId,
   testType |-> req.testType, reading |-> req.reading] @@
  Attempt(computeTestResult(req.testType, req.reading, SessionWeather(session)))

\* The response of POST to the request and the rows it leaves.
PostOutcome(req, rows) ==
  LET authResult == authenticate(req.user)
      found == {x \in Sessions : x.id = req.sessionId}
      session == CHOOSE x \in found : TRUE
  IN IF authResult.status # 0
       THEN [response |-> Reject(authResult.status, authResult.error), rows |-> rows]
     ELSE IF ~req.parsed
       THEN [response |-> Reject(500, "Internal server error"), rows |-> rows]
     ELSE IF ~CreateTestResultSchema(req)
       THEN [response |-> Reject(400, "Invalid input fields"), rows |-> rows]
     ELSE IF found = {}
       THEN [response |-> Reject(404, "Session not found"), rows |-> rows]
     ELSE IF ~checkProjectAccess(req.user, session.projectId, "EDITOR")
       THEN [response |-> Reject(403, "Insufficient permissions"), rows |-> rows]
     ELSE IF req.unitId # Absent /\ req.unitId \notin HvacUnits
       THEN [response |-> Reject(404, "HVAC unit not found"), rows |-> rows]
     ELSE [response |-> [status |-> 201, error |-> "", testResultId |-> Len(rows) + 1],
           rows |-> Append(rows, CreatedRow(req, session, Len(rows) + 1))]

Init ==
  /\ pc = "api"
  /\ testType = ""
  /\ reading = NullReading
  /\ weatherData = [outdoorTemp |-> Undefined, outdoorRH |-> Undefined]
  /\ result = Pending
  /\ chk = NoCheck
  /\ chkResult = NoCheckResult
  /\ ApiIdle
  /\ LibIdle

\* POST /api/tests, from authenticate to the response.  request and
\* response hold the last request when it was a POST, query and view when
\* it was a GET.
Post ==
  /\ pc = "api"
  /\ Len(testResults) < MaxTests
  /\ \E req \in Requests :
       \E outcome \in {PostOutcome(req, testResults)} :
         /\ request' = req
         /\ response' = outcome.response
         /\ testResults' = outcome.rows
  /\ query' = NoQuery
  /\ view' = NoView
  /\ UNCHANGED <<pc, testType, reading, weatherData, result, chk, chkResult,
                 calls, calc, calcResult, tableVars, computed>>

Refuse(status, error) == [NoView EXCEPT !.status = status, !.error = error]

\* orderBy: { createdAt: 'desc' }
Reverse(rows) == [i \in 1..Len(rows) |-> rows[Len(rows) + 1 - i]]

\* GET /api/tests?sessionId=&unitId=&testType=: searchParams.get gives null
\* (Absent) for a parameter that is not there.
TestsQueries ==
  {[user |-> u, route |-> "tests", sessionId |-> f[1], unitId |-> f[2],
    testType |-> f[3]] :
     u \in {Anonymous, Ghost} \cup Users,
     f \in {<<Absent, Absent, Absent>>,
            <<"csession0001", Absent, Absent>>,
            <<"csession0002", Absent, Absent>>,
            <<"csession0009", Absent, Absent>>,
            <<Absent, "chvacunit0001", Absent>>,
            <<Absent, Absent, "BUILDING_PRESSURE">>,
            <<"csession0001", "chvacunit0001", "BUILDING_PRESSURE">>}}

\* The response of GET /api/tests to the query over the stored rows.
GetTestsOutcome(q, rows) ==
  LET authResult == authenticate(q.user)
      found == {x \in Sessions : x.id = q.sessionId}
      session == CHOOSE x \in found : TRUE
      whereClause(row) ==
        /\ q.sessionId # Absent => row.sessionId = q.sessionId
        /\ q.unitId # Absent => row.unitId = q.unitId
        /\ q.testType # Absent => row.testType = q.testType
  IN IF authResult.status # 0 THEN Refuse(authResult.status, authResult.error)
     ELSE IF q.sessionId # Absent /\ found = {}
       THEN Refuse(404, "Session not found")
     ELSE IF q.sessionId # Absent
             /\ ~checkProjectAccess(q.user, session.projectId, "VIEWER")
       THEN Refuse(403, "Insufficient permissions")
     ELSE [NoView EXCEPT !.status = 200,
                         !.testResults = Reverse(SelectSeq(rows, whereClause))]

GetTests ==
  /\ pc = "api"
  /\ \E q \in TestsQueries :
       /\ query' = q
       /\ view' = GetTestsOutcome(q, testResults)
  /\ request' = NoRequest
  /\ response' = NoResponse
  /\ UNCHANGED <<pc, testType, reading, weatherData, result, chk, chkResult,
                 testResults, calls, calc, calcResult, tableVars, computed>>

\* Math.round(x) of a finite number: the nearest whole number, halves up.
MathRound(x) == Whole((2 * x.n + x.d) \div (2 * x.d))

\* A variant that counts every test that did not pass as failed.
RECURSIVE passFailStats_TwoWay(_)
passFailStats_TwoWay(tests) ==
  IF tests = <<>> THEN [pass |-> 0, fail |-> 0, pending |-> 0]
  ELSE LET acc == passFailStats_TwoWay(SubSeq(tests, 1, Len(tests) - 1))
           test == tests[Len(tests)]
       IN IF StrictEq(test.pass, Bool(TRUE)) THEN [acc EXCEPT !.pass = @ + 1]
          ELSE [acc EXCEPT !.fail = @ + 1]

\* session.tests.reduce(..., { pass: 0, fail: 0, pending: 0 })
RECURSIVE passFailStats(_)
passFailStats(tests) ==
  IF tests = <<>> THEN [pass |-> 0, fail |-> 0, pending |-> 0]
  ELSE LET acc == passFailStats(SubSeq(tests, 1, Len(tests) - 1))
           test == tests[Len(tests)]
       IN IF StrictEq(test.pass, Bool(TRUE)) THEN [acc EXCEPT !.pass = @ + 1]
          ELSE IF StrictEq(test.pass, Bool(FALSE)) THEN [acc EXCEPT !.fail = @ + 1]
          ELSE [acc EXCEPT !.pending = @ + 1]

\* The statistics object both session handlers build.
Statistics(tests) ==
  LET stats == passFailStats(tests)
  IN [passFailStats |-> stats,
      completionRate |->
        IF Len(tests) > 0
        THEN MathRound(Mul(Div(Whole(stats.pass + stats.fail), Whole(Len(tests))),
                           Whole(100))).n
        ELSE 0]

\* GET /api/sessions/[id] and GET /api/reports/[sessionId].
SessionQueries(route) ==
  {[user |-> u, route |-> route, sessionId |-> sid, unitId |-> Absent,
    testType |-> Absent] :
     u \in {Anonymous, Ghost} \cup Users,
     sid \in {"csession0001", "csession0002", "csession0009"}}

\* The response of either handler: the statistics over the session's tests.
GetSessionOutcome(q, rows) ==
  LET authResult == authenticate(q.user)
      found == {x \in Sessions : x.id = q.sessionId}
      session == CHOOSE x \in found : TRUE
      ofSession(row) == row.sessionId = q.sessionId
  IN IF authResult.status # 0 THEN Refuse(authResult.status, authResult.error)
     ELSE IF found = {} THEN Refuse(404, "Session not found")
     ELSE IF ~checkProjectAccess(q.user, session.projectId, "VIEWER")
       THEN Refuse(403, "Insufficient permissions")
     ELSE [NoView EXCEPT !.status = 200,
                         !.testResults = SelectSeq(rows, ofSession),
                         !.statistics = Statistics(SelectSeq(rows, ofSession))]

GetSession ==
  /\ pc = "api"
  /\ \E q \in SessionQueries("sessions") :
       /\ query' = q
       /\ view' = GetSessionOutcome(q, testResults)
  /\ request' = NoRequest
  /\ response' = NoResponse
  /\ UNCHANGED <<pc, testType, reading, weatherData, result, chk, chkResult,
                 testResults, calls, calc, calcResult, tableVars, computed>>

GetReport ==
  /\ pc = "api"
  /\ \E q \in SessionQueries("reports") :
       /\ query' = q
       /\ view' = GetSessionOutcome(q, testResults)
  /\ request' = NoRequest
  /\ response' = NoResponse
  /\ UNCHANGED <<pc, testType, reading, weatherData, result, chk, chkResult,
                 testResults, calls, calc, calcResult, tableVars, computed>>

Next == Post \/ GetTests \/ GetSession \/ GetReport

Spec == Init /\ [][Next]_vars

-----------------------------------------------------------------------------
(* POST /api/projects (app/api/projects/route.ts)                           *)

\* The greatest number of projects created.
MaxProjects == 2

\* No engine or threshold-check invocation is in progress.
EngineIdle ==
  /\ testType = ""
  /\ reading = NullReading
  /\ weatherData = [outdoorTemp |-> Undefined, outdoorRH |-> Undefined]
  /\ result = Pending
  /\ chk = NoCheck
  /\ chkResult = NoCheckResult

\* user.role, the global role of the user row.
UserRole(user) ==
  CASE user = "alice@example.com" -> "ADMIN"
    [] user = "bob@example.com" -> "ENGINEER"
    [] user = "carol@example.com" -> "VIEWER"
    [] OTHER -> "ENGINEER"

\* roleHierarchy.indexOf(role)
GlobalRoleIndex(role) ==
  CASE role = "VIEWER" -> 0 [] role = "ENGINEER" -> 1 [] role = "ADMIN" -> 2
    [] OTHER -> -1

requireRole(userRole, requiredRole) ==
  GlobalRoleIndex(userRole) >= GlobalRoleIndex(requiredRole)

\* The ids of the organization rows.
Organizations == {"corg00000001"}

\* CreateProjectSchema.safeParse(body).success
CreateProjectSchema(body) ==
  /\ body.name # ""
  /\ body.orgId \in {"corg00000001", "corg00000009"}

ProjectRequests ==
  {[user |-> u, parsed |-> TRUE, name |-> nm, orgId |-> org] :
     u \in {Anonymous, Ghost} \cup Users,
     nm \in {"", "Plant A"},
     org \in {"corg00000001", "corg00000009", "not a cuid"}}
  \cup
  {[user |-> u, parsed |-> FALSE, name |-> "", orgId |-> ""] :
     u \in {Anonymous, Ghost} \cup Users}

\* What can fail inside the transaction: nothing, tx.project.create or
\* tx.membership.create.
Faults == {"none", "project.create", "membership.create"}

\* A variant that runs the two creates outside a transaction: a failure of
\* membership.create leaves the project behind.
Transaction_NoRollback(req, fault, rows, members) ==
  LET project == [id |-> Len(rows) + 1, name |-> req.name, orgId |-> req.orgId]
      membership == [userId |-> req.user, projectId |-> project.id, role |-> "OWNER"]
  IN IF fault = "project.create"
       THEN [committed |-> FALSE, projects |-> rows, memberships |-> members]
     ELSE IF fault = "membership.create"
       THEN [committed |-> FALSE, projects |-> Append(rows, project),
             memberships |-> members]
     ELSE [committed |-> TRUE, projects |-> Append(rows, project),
           memberships |-> members \cup {membership}]

\* db.$transaction(async (tx) => { project.create; membership.create }):
\* both rows are written, or the callback threw and neither is.
Transaction(req, fault, rows, members) ==
  LET project == [id |-> Len(rows) + 1, name |-> req.name, orgId |-> req.orgId]
      membership == [userId |-> req.user, projectId |-> project.id, role |-> "OWNER"]
  IN IF fault # "none"
       THEN [committed |-> FALSE, projects |-> rows, memberships |-> members]
     ELSE [committed |-> TRUE, projects |-> Append(rows, project),
           memberships |-> members \cup {membership}]

ProjectReject(status, error) == [status |-> status, error |-> error, projectId |-> 0]

\* The response of POST /api/projects and the tables it leaves.
PostProjectOutcome(req, fault, rows, members) ==
  LET authResult == authenticate(req.user)
      tx == Transaction(req, fault, rows, members)
      kept == [projects |-> rows, memberships |-> members]
  IN IF authResult.status # 0
       THEN [response |-> ProjectReject(authResult.status, authResult.error)] @@ kept
     ELSE IF ~requireRole(UserRole(req.user), "ENGINEER")
       THEN [response |-> ProjectReject(403, "Insufficient permissions")] @@ kept
     ELSE IF ~req.parsed
       THEN [response |-> ProjectReject(500, "Internal server error")] @@ kept
     ELSE IF ~CreateProjectSchema(req)
       THEN [response |-> ProjectReject(400, "Invalid input fields")] @@ kept
     ELSE IF req.orgId \notin Organizations
       THEN [response |-> ProjectReject(404, "Organization not found")] @@ kept
     ELSE IF ~tx.committed
       THEN [response |-> ProjectReject(500, "Internal server error"),
             projects |-> tx.projects, memberships |-> tx.memberships]
     ELSE [response |-> [status |-> 201, error |-> "", projectId |-> Len(rows) + 1],
           projects |-> tx.projects, memberships |-> tx.memberships]

ProjectsInit ==
  /\ pc = "projects"
  /\ EngineIdle
  /\ ApiIdle
  /\ LibIdle

PostProject ==
  /\ pc = "projects"
  /\ Len(projects) < MaxProjects
  /\ \E req \in ProjectRequests, fault \in Faults :
       \E outcome \in {PostProjectOutcome(req, fault, projects, memberships)} :
         /\ request' = req
         /\ response' = outcome.response
         /\ projects' = outcome.projects
         /\ memberships' = outcome.memberships
  /\ UNCHANGED <<pc, testType, reading, weatherData, result, chk, chkResult,
                 testResults, calls, calc, calcResult, query, view,
                 reports, handlers, files, objects, computed>>

ProjectsNext == PostProject

ProjectsSpec == ProjectsInit /\ [][ProjectsNext]_vars

-----------------------------------------------------------------------------
(* POST /api/reports/[sessionId] (app/api/reports/[sessionId]/route.ts)     *)

\* The greatest number of requests handled, one after or beside another.
MaxHandlers == 2

\* The requests: the session of the path and the title of the body.
ReportRequests ==
  {[user |-> u, sessionId |-> sid, title |-> "Final"] :
     u \in {Anonymous, "bob@example.com", "carol@example.com", "dave@example.com"},
     sid \in {"csession0001", "csession0002", "csession0009"}}
  \cup {[user |-> "bob@example.com", sessionId |-> "csession0001", title |-> ""]}

\* title || `${session.area.project.name} - ${session.area.name}`
ReportTitle(req) ==
  IF req.title # "" THEN req.title ELSE req.sessionId \o " project - area"

\* The handler's way up to db.report.findFirst: the status it answers with
\* when it stops before, 0 when it goes on.
ReportGate(req) ==
  LET authResult == authenticate(req.user)
      found == {x \in Sessions : x.id = req.sessionId}
      session == CHOOSE x \in found : TRUE
  IN IF authResult.status # 0 THEN authResult.status
     ELSE IF found = {} THEN 404
     ELSE IF ~checkProjectAccess(req.user, session.projectId, "EDITOR") THEN 403
     ELSE 0

\* db.report.findFirst({ where: { sessionId } }): the id of the first such
\* row, 0 (null) when there is none.
FindFirstReport(rows, sessionId) ==
  LET hits == {k \in 1..Len(rows) : rows[k].sessionId = sessionId}
  IN IF hits = {} THEN 0 ELSE CHOOSE k \in hits : \A m \in hits : k <= m

ReportsInit ==
  /\ pc = "reports"
  /\ EngineIdle
  /\ ApiIdle
  /\ LibIdle

\* A request arrives and its handler starts.
ReportArrives ==
  /\ pc = "reports"
  /\ Len(handlers) < MaxHandlers
  /\ \E req \in ReportRequests :
       handlers' = Append(handlers, [request |-> req, at |-> "start", found |-> 0,
                                     status |-> 0])
  /\ UNCHANGED <<pc, testType, reading, weatherData, result, chk, chkResult,
                 testResults, request, response, calls, calc, calcResult,
                 query, view, projects, memberships, reports, files, objects, computed>>

\* The handler runs from authenticate to the answer of db.report.findFirst.
FindReport ==
  /\ pc = "reports"
  /\ \E h \in 1..Len(handlers) :
       /\ handlers[h].at = "start"
       /\ LET req == handlers[h].request
              stop == ReportGate(req)
          IN handlers' =
               [handlers EXCEPT ![h] =
                  IF stop # 0 THEN [@ EXCEPT !.at = "done", !.status = stop]
                  ELSE [@ EXCEPT !.at = "found",
                                 !.found = FindFirstReport(reports, req.sessionId)]]
  /\ UNCHANGED <<pc, testType, reading, weatherData, result, chk, chkResult,
                 testResults, request, response, calls, calc, calcResult,
                 query, view, projects, memberships, reports, files, objects, computed>>

\* The handler updates the report it found or creates a new one, and
\* answers 201.
SaveReport ==
  /\ pc = "reports"
  /\ \E h \in 1..Len(handlers) :
       /\ handlers[h].at = "found"
       /\ LET req == handlers[h].request
              session == CHOOSE x \in Sessions : x.id = req.sessionId
          IN reports' =
               IF handlers[h].found # 0
               THEN [reports EXCEPT ![handlers[h].found] =
                       [@ EXCEPT !.title = ReportTitle(req), !.status = "GENERATED"]]
               ELSE Append(reports,
                      [id |-> Len(reports) + 1, projectId |-> session.projectId,
                       sessionId |-> req.sessionId, title |-> ReportTitle(req),
                       status |-> "GENERATED"])
       /\ handlers' = [handlers EXCEPT ![h] = [@ EXCEPT !.at = "done", !.status = 201]]
  /\ UNCHANGED <<pc, testType, reading, weatherData, result, chk, chkResult,
                 testResults, request, response, calls, calc, calcResult,
                 query, view, projects, memberships, files, objects, computed>>

ReportsNext == ReportArrives \/ FindReport \/ SaveReport

ReportsSpec == ReportsInit /\ [][ReportsNext]_vars

-----------------------------------------------------------------------------
(* DELETE /api/files/[id] (app/api/files/[id]/route.ts)                     *)

\* The fileAsset rows before any request: one of each project and one that
\* belongs to no project (projectId is null, shown as "").
StoredFiles ==
  {[id |-> "cfile0001", projectId |-> "cproject0001", url |-> "projects/1/a.jpg"],
   [id |-> "cfile0002", projectId |-> "cproject0002", url |-> "projects/2/b.jpg"],
   [id |-> "cfile0003", projectId |-> "", url |-> "general/c.jpg"]}

DeleteRequests ==
  {[user |-> u, fileId |-> f] :
     u \in {Anonymous, Ghost} \cup Users,
     f \in {"cfile0001", "cfile0002", "cfile0003", "cfile0009"}}

\* A variant of the inner try/catch that lets the S3 error through.
S3Attempt_Propagates(key, s3, objs) ==
  [threw |-> s3 # "ok", objects |-> IF s3 = "ok" THEN objs \ {key} ELSE objs]

\* try { await deleteFile(extractKeyFromUrl(file.url)) } catch { }: when S3
\* fails the object stays and the error is logged, not thrown.
S3Attempt(key, s3, objs) ==
  [threw |-> FALSE, objects |-> IF s3 = "ok" THEN objs \ {key} ELSE objs]

FileReject(status, error) == [status |-> status, error |-> error]

\* The response of DELETE /api/files/[id] and what it leaves in the table
\* and in the bucket.
DeleteFileOutcome(req, s3, rows, objs) ==
  LET authResult == authenticate(req.user)
      found == {x \in rows : x.id = req.fileId}
      file == CHOOSE x \in found : TRUE
      kept == [files |-> rows, objects |-> objs]
      attempt == S3Attempt(file.url, s3, objs)
  IN IF authResult.status # 0
       THEN [response |-> FileReject(authResult.status, authResult.error)] @@ kept
     ELSE IF found = {}
       THEN [response |-> FileReject(404, "File not found")] @@ kept
     ELSE IF file.projectId # ""
             /\ ~checkProjectAccess(req.user, file.projectId, "EDITOR")
       THEN [response |-> FileReject(403, "Insufficient permissions")] @@ kept
     ELSE IF attempt.threw
       THEN [response |-> FileReject(500, "Internal server error"),
             files |-> rows, objects |-> attempt.objects]
     ELSE [response |-> FileReject(200, ""),
           files |-> rows \ {file}, objects |-> attempt.objects]

FilesInit ==
  /\ pc = "files"
  /\ EngineIdle
  /\ LibIdle
  /\ testResults = <<>>
  /\ request = NoRequest
  /\ response = NoResponse
  /\ GetIdle
  /\ ProjectsIdle
  /\ ReportsIdle
  /\ FormIdle
  /\ files = StoredFiles
  /\ objects = {x.url : x \in StoredFiles}

DeleteFile ==
  /\ pc = "files"
  /\ \E req \in DeleteRequests, s3 \in {"ok", "fails"} :
       \E outcome \in {DeleteFileOutcome(req, s3, files, objects)} :
         /\ request' = req
         /\ response' = outcome.response
         /\ files' = outcome.files
         /\ objects' = outcome.objects
  /\ UNCHANGED <<pc, testType, reading, weatherData, result, chk, chkResult,
                 testResults, calls, calc, calcResult, query, view,
                 projects, memberships, reports, handlers, computed>>

FilesNext == DeleteFile

FilesSpec == FilesInit /\ [][FilesNext]_vars

-----------------------------------------------------------------------------
(* Specification of a series of invocations of the engine                  *)

MaxCalls == 3

\* The reading argument as the invocation leaves it.  No routine assigns to
\* a property of data: gridSamples.map(...) builds new arrays, and
\* calculateStats reads its values by spread and reduce.
ReadingAfter(tt, rd) == rd

\* The arguments of the invocations: one refrigerant reading under two
\* weathers, a grid, a reading with an optional property missing, and a
\* discriminant outside the enum.
CallInputs ==
  {[testType |-> "REFRIGERANT_CIRCUIT",
    reading |-> [TypicalReading("REFRIGERANT_CIRCUIT") EXCEPT
                   !.suctionLineTemp_F = Whole(134)],
    weather |-> [outdoorTemp |-> o, outdoorRH |-> Undefined]] :
     o \in {Undefined, Whole(105)}}
  \cup
  {[testType |-> "DISTRIBUTION_MIXING",
    reading |-> [gridSamples |-> <<[db_F |-> Whole(76), rh_pct |-> Whole(0)],
                                   [db_F |-> Whole(70), rh_pct |-> Whole(45)]>>,
                 returnDewPoint_F |-> Whole(55)],
    weather |-> [outdoorTemp |-> Undefined, outdoorRH |-> Undefined]],
   [testType |-> "AIRFLOW_STATIC",
    reading |-> Without(TypicalReading("AIRFLOW_STATIC"), "returnCFM"),
    weather |-> [outdoorTemp |-> Whole(105), outdoorRH |-> Whole(50)]],
   [testType |-> "DUCT_LEAKAGE",
    reading |-> TypicalReading("BUILDING_PRESSURE"),
    weather |-> [outdoorTemp |-> Undefined, outdoorRH |-> Undefined]]}

CallsInit ==
  /\ pc = "calls"
  /\ testType = ""
  /\ reading = NullReading
  /\ weatherData = [outdoorTemp |-> Undefined, outdoorRH |-> Undefined]
  /\ result = Pending
  /\ chk = NoCheck
  /\ chkResult = NoCheckResult
  /\ ApiIdle
  /\ LibIdle

\* One more invocation of computeTestResult, run to its return or throw.
Call ==
  /\ pc = "calls"
  /\ Len(calls) < MaxCalls
  /\ \E a \in CallInputs :
       calls' = Append(calls,
         [testType |-> a.testType, reading |-> a.reading, weather |-> a.weather,
          result |-> computeTestResult(a.testType, a.reading, a.weather),
          readingAfter |-> ReadingAfter(a.testType, a.reading)])
  /\ UNCHANGED <<pc, testType, reading, weatherData, result, chk, chkResult,
                 testResults, request, response, calc, calcResult, handlerVars, computed>>

CallsNext == Call

CallsSpec == CallsInit /\ [][CallsNext]_vars

-----------------------------------------------------------------------------
(* Specification of the coil-performance form and the server's computation *)

\* The values of the form's fields: the defaults (0) and whole numbers a
\* technician enters.  The relative humidities rise by less than 10, by
\* 10 to 40 and by more than 40 points from return to supply, or fall.
WatchedValues ==
  {[unitLabel |-> Str("RTU-1"), returnDB_F |-> a, returnRH_pct |-> b,
    supplyDB_F |-> c, supplyRH_pct |-> d, condensateVolume_oz_per_30min |-> e,
    notes |-> Str("")] :
     a \in {Whole(0), Whole(75), Whole(84)},
     b \in {Whole(0), Whole(30), Whole(55), Whole(85)},
     c \in {Whole(0), Whole(50), Whole(58), Whole(59), Whole(67), Whole(76)},
     d \in {Whole(0), Whole(55), Whole(85), Whole(100)},
     e \in {Whole(0), Whole(12)}}

FormInit ==
  /\ pc = "form"
  /\ testType = "COIL_PERFORMANCE"
  /\ reading \in WatchedValues
  /\ weatherData = [outdoorTemp |-> Undefined, outdoorRH |-> Undefined]
  /\ result = Pending
  /\ chk = NoCheck
  /\ chkResult = NoCheckResult
  /\ ApiIdle
  /\ LibIdle

\* The effect of the form runs on the watched values.
Watch ==
  /\ pc = "form"
  /\ computed' = CoilPerformanceForm(reading)
  /\ pc' = "watched"
  /\ UNCHANGED <<testType, reading, weatherData, result, chk, chkResult,
                 testResults, request, response, calls, calc, calcResult,
                 handlerVars>>

\* onSubmit posts the form's data as the reading of a COIL_PERFORMANCE test
\* and the server computes its result: computeTestResult hands the reading
\* of that type to computeCoilPerformance.
Submit ==
  /\ pc = "watched"
  /\ result' = computeCoilPerformance(reading)
  /\ pc' = "posted"
  /\ UNCHANGED <<testType, reading, weatherData, chk, chkResult,
                 testResults, request, response, calls, calc, calcResult,
                 handlerVars, computed>>

FormNext == Watch \/ Submit

FormSpec == FormInit /\ [][FormNext]_vars

----------------------------------------------------------------------------
(* Specification of a single invocation of a calculation routine           *)

\* The greatest length of an array handed to calculateStats.
MaxStats == 3

\* refrigerant: string = 'R-410A' (the default applies to undefined).
RefrigerantOrDefault(refrigerant) ==
  IF refrigerant = Undefined THEN "R-410A" ELSE refrigerant.s

\* Pressures at, next to and between the breakpoints 50, 100 and 200.
CalcPressures ==
  {Whole(0), Whole(50), Num(101, 2), Whole(51), Whole(100), Whole(101),
   Whole(118), Whole(200), Whole(201), Whole(285)}

SaturationCalls ==
  {[name |-> "getSaturationTemp", args |-> <<p, r>>] :
     p \in CalcPressures, r \in {Str("R-410A"), Str("R-22")}}

LineCalls ==
  {[name |-> nm, args |-> <<t, p, r>>] :
     nm \in {"calculateSuperheat", "calculateSubcooling"},
     t \in {Whole(45), Whole(85)}, p \in CalcPressures,
     r \in {Undefined, Str("R-410A"), Str("R-22")}}

StatsValues == {Whole(-2), Whole(1), Whole(3), Whole(7)}

StatsCalls ==
  {[name |-> "calculateStats", args |-> <<values>>] :
     values \in UNION {[1..n -> StatsValues] : n \in 0..MaxStats}}

EffectivenessTemps == {Whole(55), Whole(65), Whole(70), Whole(75), Whole(95)}

EffectivenessCalls ==
  {[name |-> "calculateEconomizerEffectiveness", args |-> <<m, r, o>>] :
     m \in EffectivenessTemps, r \in EffectivenessTemps, o \in EffectivenessTemps}

\* computeRefrigerantCircuit on the readings with 45 F at 118 psi on the
\* suction line and 85 F at 285 psi on the liquid line.
CircuitCalls ==
  {[name |-> "computeRefrigerantCircuit", args |-> <<r, o>>] :
     r \in {x \in RefrigerantCircuitReadings :
              /\ x.suctionLineTemp_F = Whole(45) /\ x.suctionPSI = Whole(118)
              /\ x.liquidLineTemp_F = Whole(85) /\ x.liquidPSI = Whole(285)},
     o \in {Undefined, Whole(105)}}

\* Dry-bulb temperatures over -40..150 F and relative humidities in whole
\* percent over 1..100.
DewPointCalls ==
  {[name |-> "calculateDewPoint", args |-> <<t, rh>>] :
     t \in {Whole(-40), Whole(-39), Whole(0), Whole(32), Whole(58), Whole(75),
            Whole(100), Whole(150)},
     rh \in {Whole(1), Whole(30), Whole(55), Whole(85), Whole(99), Whole(100)}}

CalcInit ==
  /\ pc = "calc"
  /\ \/ calc \in DewPointCalls
     \/ calc \in SaturationCalls
     \/ calc \in LineCalls
     \/ calc \in StatsCalls
     \/ calc \in EffectivenessCalls
     \/ calc \in CircuitCalls
  /\ calcResult = NoCalcResult
  /\ calls = <<>>
  /\ chk = NoCheck
  /\ chkResult = NoCheckResult
  /\ testType = ""
  /\ reading = NullReading
  /\ weatherData = [outdoorTemp |-> Undefined, outdoorRH |-> Undefined]
  /\ result = Pending
  /\ ApiIdle

\* The routine of that name, applied to the arguments.
ApplyCalc ==
  /\ pc = "calc"
  /\ calcResult' =
       CASE calc.name = "calculateDewPoint" ->
              calculateDewPoint(calc.args[1], calc.args[2])
         [] calc.name = "getSaturationTemp" ->
              getSaturationTemp(calc.args[1], calc.args[2].s)
         [] calc.name = "calculateSuperheat" ->
              calculateSuperheat(calc.args[1], calc.args[2],
                                 RefrigerantOrDefault(calc.args[3]))
         [] calc.name = "calculateSubcooling" ->
              calculateSubcooling(calc.args[1], calc.args[2],
                                  RefrigerantOrDefault(calc.args[3]))
         [] calc.name = "calculateStats" -> calculateStats(calc.args[1])
         [] calc.name = "calculateEconomizerEffectiveness" ->
              calculateEconomizerEffectiveness(calc.args[1], calc.args[2],
                                               calc.args[3])
         [] OTHER -> computeRefrigerantCircuit(calc.args[1], calc.args[2])
  /\ pc' = "calculated"
  /\ UNCHANGED <<testType, reading, weatherData, result, chk, chkResult,
                 testResults, request, response, calls, calc, handlerVars, computed>>

CalcNext == ApplyCalc

CalcSpec == CalcInit /\ [][CalcNext]_vars

----------------------------------------------------------------------------
(* Properties of the engine                                                *)

Returned == pc = "returned" /\ testType # "" /\ ~result.threw
Threw == pc = "returned" /\ testType # "" /\ result.threw

\* lo <= v <= hi, v < lo and v > hi for a finite v and the fractions
\* lo = ln/ld, hi = hn/hd.
Within(v, ln, ld, hn, hd) ==
  v.t = "num" /\ v.n * ld >= ln * v.d /\ v.n * hd <= hn * v.d
Under(v, ln, ld) == v.t = "num" /\ v.n * ld < ln * v.d
Over(v, hn, hd) == v.t = "num" /\ v.n * hd > hn * v.d

\* The entry of that name in an insertion-ordered map, and the names in it.
Names(entries) == {entries[i].name : i \in DOMAIN entries}
Entry(entries, name) == entries[CHOOSE i \in DOMAIN entries : entries[i].name = name]

\* C1: for each recognized test type and every reading, the ComputedResult
\* returned has pass = true if and only if every entry of checks has pass = true.
C1_PassIsConjunctionOfChecks ==
  Returned =>
    (result.value.pass <=>
       \A i \in DOMAIN result.value.checks : result.value.checks[i].pass)

\* C1 witness: a returned result with one passing and one failing check.
C1_Witness ==
  /\ Returned
  /\ testType = "ECONOMIZER_SEAL"
  /\ ~result.value.pass
  /\ \E i, j \in DOMAIN result.value.checks :
       result.value.checks[i].pass /\ ~result.value.checks[j].pass

\* C2: an unrecognized test type makes computeTestResult throw the "Unknown
\* test type" error and return no ComputedResult; a recognized test type
\* never throws that error.
C2_UnknownTypeFailsFast ==
  pc = "returned" /\ testType # "" =>
    IF testType \in RecognizedTypes
    THEN result.error # "Unknown test type: " \o testType
    ELSE result.threw /\ result.error = "Unknown test type: " \o testType
         /\ result.value = NoValue

\* C2 witness: an invocation with an unrecognized type has thrown.
C2_Witness ==
  /\ pc = "returned"
  /\ testType = "DUCT_LEAKAGE"
  /\ result.threw

\* The outdoor temperature the fallback chain of C4 selects: the session
\* weather when present, else the reading's own, else 95.
C4_OutdoorTemp ==
  IF weatherData.outdoorTemp.t # "undef" THEN weatherData.outdoorTemp
  ELSE IF "outdoorDB_F" \in DOMAIN reading THEN reading["outdoorDB_F"]
  ELSE Whole(95)

\* The target text of the range C5 / C6 give for an outdoor temperature.
C5_SuperheatTarget(o) ==
  IF Over(o, 100, 1) THEN "6 - 12°F"
  ELSE IF Under(o, 80, 1) THEN "10 - 18°F" ELSE "8 - 15°F"
C6_SubcoolingTarget(o) ==
  IF Over(o, 100, 1) THEN "10 - 18°F"
  ELSE IF Under(o, 80, 1) THEN "6 - 12°F" ELSE "8 - 15°F"

\* C4: for REFRIGERANT_CIRCUIT the acceptance ranges of both checks are those
\* of the session weather outdoorTemp whenever it is present (0 included),
\* otherwise of the reading's outdoorDB_F, otherwise of 95 F.
C4_OutdoorFallbackChain ==
  Returned /\ testType = "REFRIGERANT_CIRCUIT" =>
    /\ Entry(result.value.checks, "superheat").target
         = C5_SuperheatTarget(C4_OutdoorTemp)
    /\ Entry(result.value.checks, "subcooling").target
         = C6_SubcoolingTarget(C4_OutdoorTemp)

\* C4, less the case of a session weather of 0: the code's chain.
C4_ChainForTruthyWeather ==
  Returned /\ testType = "REFRIGERANT_CIRCUIT"
    /\ weatherData.outdoorTemp # Whole(0) =>
    /\ Entry(result.value.checks, "superheat").target
         = C5_SuperheatTarget(C4_OutdoorTemp)
    /\ Entry(result.value.checks, "subcooling").target
         = C6_SubcoolingTarget(C4_OutdoorTemp)

\* The outdoor temperature a check is applied to: 95 when omitted.
ChkOutdoor == IF chk.outdoorTemp.t = "undef" THEN Whole(95) ELSE chk.outdoorTemp
ChkReturned(name) == pc = "returned" /\ chk.name = name

\* C5: checkSuperheat uses 6-12 when outdoor > 100, 10-18 when outdoor < 80,
\* 8-15 otherwise (80 and 100 included); pass iff min <= superheat <= max of
\* that range; target renders that range.
C5_SuperheatRanges ==
  ChkReturned("superheat") =>
    LET lo == IF Over(ChkOutdoor, 100, 1) THEN 6
              ELSE IF Under(ChkOutdoor, 80, 1) THEN 10 ELSE 8
        hi == IF Over(ChkOutdoor, 100, 1) THEN 12
              ELSE IF Under(ChkOutdoor, 80, 1) THEN 18 ELSE 15
    IN /\ chkResult.pass <=> Within(chk.value, lo, 1, hi, 1)
       /\ chkResult.target = C5_SuperheatTarget(ChkOutdoor)
       /\ chkResult.target = NatStr(lo) \o " - " \o NatStr(hi) \o "°F"

\* C5 witness: at 100.01 F a superheat of 6 passes against 6 - 12.
C5_Witness ==
  /\ ChkReturned("superheat")
  /\ chk.outdoorTemp = Num(10001, 100)
  /\ chk.value = Whole(6)
  /\ chkResult.pass
  /\ chkResult.target = "6 - 12°F"

\* C6: checkSubcooling uses 10-18 when outdoor > 100, 6-12 when outdoor < 80,
\* 8-15 otherwise (80 and 100 included), the mirror image of the superheat
\* adjustments; pass iff min <= subcooling <= max of that range.
C6_SubcoolingRanges ==
  ChkReturned("subcooling") =>
    LET lo == IF Over(ChkOutdoor, 100, 1) THEN 10
              ELSE IF Under(ChkOutdoor, 80, 1) THEN 6 ELSE 8
        hi == IF Over(ChkOutdoor, 100, 1) THEN 18
              ELSE IF Under(ChkOutdoor, 80, 1) THEN 12 ELSE 15
    IN /\ chkResult.pass <=> Within(chk.value, lo, 1, hi, 1)
       /\ chkResult.target = C6_SubcoolingTarget(ChkOutdoor)
       /\ (Over(ChkOutdoor, 100, 1) =>
             chkResult.target = C5_SuperheatTarget(Whole(0)))
       /\ (Under(ChkOutdoor, 80, 1) =>
             chkResult.target = C5_SuperheatTarget(Whole(150)))

\* C6 witness: at 79.99 F a subcooling of 12 passes against 6 - 12.
C6_Witness ==
  /\ ChkReturned("subcooling")
  /\ chk.outdoorTemp = Num(7999, 100)
  /\ chk.value = Whole(12)
  /\ chkResult.pass
  /\ chkResult.target = "6 - 12°F"

\* The checks of a test type that depend on the property f of its reading.
C7_DependentChecks(tt, f) ==
  CASE tt = "BUILDING_PRESSURE" /\ f = "deltaP_inwc" -> {"building_pressure"}
    [] tt = "PRESSURE_DECAY" /\ f \in {"startDeltaP", "endDeltaP", "decaySeconds"} ->
         {"decay_rate"}
    [] tt = "RETURN_CURB_LEAKAGE" /\ f \in {"returnStatic_inwc", "supplyStatic_inwc"} ->
         {"pressure_balance"}
    [] tt = "RETURN_CURB_LEAKAGE" /\ f = "smokeLeaksFound" -> {"smoke_leaks"}
    [] tt = "SLAB_WALL_MOISTURE" /\ f = "plasticTest" -> {"plastic_test"}
    [] tt = "AIRFLOW_STATIC" /\ f \in {"tons", "supplyCFM"} -> {"cfm_per_ton"}
    [] tt = "AIRFLOW_STATIC" /\ f = "extStatic_inwc" -> {"external_static"}
    [] tt = "REFRIGERANT_CIRCUIT" /\ f \in {"suctionLineTemp_F", "suctionPSI"} ->
         {"superheat"}
    [] tt = "REFRIGERANT_CIRCUIT" /\ f \in {"liquidLineTemp_F", "liquidPSI"} ->
         {"subcooling"}
    [] tt = "COIL_PERFORMANCE" /\ f = "supplyDB_F" ->
         {"supply_dew_point", "temperature_drop"}
    [] tt = "COIL_PERFORMANCE" /\ f = "supplyRH_pct" -> {"supply_dew_point"}
    [] tt = "COIL_PERFORMANCE" /\ f = "returnDB_F" -> {"temperature_drop"}
    [] tt = "FAN_EVAP_RECHECK" /\ f \in {"supplyDB_F", "supplyRH_pct"} ->
         {"supply_dew_point"}
    [] tt = "FAN_EVAP_RECHECK" /\ f = "staticPressure_inwc" -> {"static_pressure"}
    [] tt = "ECONOMIZER_SEAL" /\ f = "commandedPct" -> {"damper_position"}
    [] tt = "ECONOMIZER_SEAL" /\ f = "leakageObserved" -> {"leakage_test"}
    [] tt = "DISTRIBUTION_MIXING" /\ f = "gridSamples" ->
         {"temperature_mixing", "humidity_mixing"}
    [] OTHER -> {}

\* The properties the typical reading of the type has and this reading lacks.
C7_Missing ==
  IF testType \in RecognizedTypes /\ reading # NullReading
  THEN (DOMAIN TypicalReading(testType)) \ (DOMAIN reading)
  ELSE {}

\* C7: when a property a check depends on is missing from the reading (all
\* else being in range), computeTestResult does not throw, the dependent
\* check is absent from checks, and the overall pass is not made false.
C7_MissingFieldSkipsCheck ==
  pc = "returned" /\ reading \in OneMissing({TypicalReading(testType)}) =>
    \A f \in C7_Missing :
      C7_DependentChecks(testType, f) # {} =>
        /\ ~result.threw
        /\ Names(result.value.checks) \cap C7_DependentChecks(testType, f) = {}
        /\ result.value.pass

\* C8: for every reading within the schema bounds, zero and boundary values
\* included, computeTestResult returns without throwing and every value in
\* calculations is a finite number.
C8_CalculationsAreNumbers ==
  pc = "returned" /\ SchemaValid(testType, reading) =>
    /\ ~result.threw
    /\ \A i \in DOMAIN result.value.calculations :
         result.value.calculations[i].value.t = "num"

\* The range <<min, max>> a threshold check states in its target.
C9_Range(name, target) ==
  CASE name = "building_pressure" -> <<Num(2, 100), Num(5, 100)>>
    [] name = "cfm_per_ton" -> <<Whole(350), Whole(400)>>
    [] name = "supply_dew_point" -> <<Whole(50), Whole(55)>>
    [] target = "6 - 12°F" -> <<Whole(6), Whole(12)>>
    [] target = "10 - 18°F" -> <<Whole(10), Whole(18)>>
    [] OTHER -> <<Whole(8), Whole(15)>>

\* The in-range, too-low and too-high texts of a threshold check.
C9_Texts(name) ==
  CASE name = "building_pressure" ->
         <<"Building pressure within acceptable range",
           "Building pressure too low - insufficient pressurization",
           "Building pressure too high - over pressurized">>
    [] name = "cfm_per_ton" ->
         <<"CFM/ton within acceptable range for dehumidification",
           "CFM/ton too low - may indicate airflow restriction",
           "CFM/ton too high - poor dehumidification performance">>
    [] name = "supply_dew_point" ->
         <<"Supply dew point within acceptable range",
           "Supply dew point too low - over-dehumidification",
           "Supply dew point too high - insufficient dehumidification">>
    [] name = "superheat" ->
         <<"Superheat within acceptable range",
           "Superheat too low - possible refrigerant overcharge or TXV issues",
           "Superheat too high - possible refrigerant undercharge or restriction">>
    [] OTHER ->
         <<"Subcooling within acceptable range",
           "Subcooling too low - possible refrigerant undercharge",
           "Subcooling too high - possible refrigerant overcharge or restriction">>

\* The contract of C9 for one CheckResult c of the primitive `name`.
C9_Contract(name, c) ==
  LET lo == C9_Range(name, c.target)[1]
      hi == C9_Range(name, c.target)[2]
      v == c.value
      texts == C9_Texts(name)
  IN /\ c.pass <=> Within(v, lo.n, lo.d, hi.n, hi.d)
     /\ c.message \in {texts[1], texts[2], texts[3]}
     /\ c.message = texts[1] <=> c.pass
     /\ c.message = texts[2] <=> Under(v, lo.n, lo.d)
     /\ c.message = texts[3] <=> Over(v, hi.n, hi.d)

\* C9: each of the five threshold checks returns pass iff min <= value <= max
\* (inclusive) and exactly the in-range text iff pass, the too-low text iff
\* value < min, the too-high text iff value > max.  Stated of the checks in
\* the results of readings within the schema bounds.
C9_ThresholdCheckContract ==
  Returned /\ SchemaValid(testType, reading) =>
    \A i \in DOMAIN result.value.checks :
      result.value.checks[i].name \in CheckNames =>
        C9_Contract(result.value.checks[i].name, result.value.checks[i])

\* C9 for the values that are numbers: the contract the code keeps.
C9_ContractForNumbers ==
  pc = "returned" /\ chk.name # "" /\ chk.value.t = "num" =>
    C9_Contract(chk.name, chkResult)

\* C10: for BUILDING_PRESSURE the result has exactly one check,
\* building_pressure, that passes iff 0.02 <= deltaP_inwc <= 0.05 with the
\* target "0.02 - 0.05 in. w.c."; 0.035 passes, 0.08 fails as too high / over
\* pressurized; the summary equals the check's message.
C10_BuildingPressure ==
  Returned /\ testType = "BUILDING_PRESSURE" =>
    LET checks == result.value.checks
        deltaP == Get(reading, "deltaP_inwc")
    IN /\ Len(checks) = 1
       /\ checks[1].name = "building_pressure"
       /\ checks[1].pass <=> Within(deltaP, 2, 100, 5, 100)
       /\ checks[1].target = "0.02 - 0.05 in. w.c."
       /\ result.value.summary = checks[1].message
       /\ (deltaP = Num(35, 1000) => checks[1].pass /\ result.value.pass)
       /\ (deltaP = Num(8, 100) =>
             /\ ~checks[1].pass
             /\ ~result.value.pass
             /\ checks[1].message = "Building pressure too high - over pressurized")

\* C10 witness: the reading deltaP_inwc = 0.08 has failed as too high.
C10_Witness ==
  /\ Returned
  /\ testType = "BUILDING_PRESSURE"
  /\ Get(reading, "deltaP_inwc") = Num(8, 100)
  /\ ~result.value.pass
  /\ result.value.summary = "Building pressure too high - over pressurized"

-----------------------------------------------------------------------------
(* Properties of POST /api/tests                                            *)

\* The request passes authentication, validation and the access checks.
C3_Admitted(req) ==
  /\ req.user \in Users
  /\ CreateTestResultSchema(req)
  /\ \E x \in Sessions :
       x.id = req.sessionId /\ checkProjectAccess(req.user, x.projectId, "EDITOR")
  /\ req.unitId = Absent \/ req.unitId \in HvacUnits

\* What computeTestResult does for the request in its session's weather.
C3_Computation(req) ==
  computeTestResult(req.testType, req.reading,
    SessionWeather(CHOOSE x \in Sessions : x.id = req.sessionId))

\* C3: for a request that passed authentication, validation and the access
\* checks the handler answers 201 and has created the record with the raw
\* reading; when computeTestResult threw, computed and pass are unset; when
\* it returned, the stored pass is the computed result's pass.
C3_ComputationFailureStillCreates ==
  request # NoRequest /\ C3_Admitted(request) =>
    LET row == testResults[Len(testResults)]
        c == C3_Computation(request)
    IN /\ response.status = 201
       /\ Len(testResults) >= 1
       /\ row.id = response.testResultId
       /\ row.sessionId = request.sessionId
       /\ row.testType = request.testType
       /\ row.reading = request.reading
       /\ IF c.threw
          THEN ~row.hasComputed /\ row.pass = Undefined
          ELSE /\ row.hasComputed
               /\ row.computed = c.value
               /\ row.pass = Bool(c.value.pass)

\* C3 witness: an admitted request whose computation threw was answered 201
\* and its record has no pass; the record before it holds a computed pass.
C3_Witness ==
  /\ request # NoRequest
  /\ C3_Admitted(request)
  /\ C3_Computation(request).threw
  /\ response.status = 201
  /\ Len(testResults) = 2
  /\ testResults[2].pass = Undefined
  /\ testResults[1].pass = Bool(FALSE)

-----------------------------------------------------------------------------
(* Properties of a series of invocations                                    *)

-----------------------------------------------------------------------------
(* Properties of the single routines                                        *)

\* The value of the entry `name` of calculations, and the check `name`.
Calculation(name) == Entry(result.value.calculations, name).value
CheckOf(name) == Entry(result.value.checks, name)

C13_Holds(listed) ==
  LET r == reading.returnStatic_inwc
      s == reading.supplyStatic_inwc
      balanced == Abs(r.n * s.d - s.n * r.d) * 10 <= r.d * s.d
      clean == reading.smokeLeaksFound = Bool(FALSE)
  IN /\ ~result.threw
     /\ Names(result.value.checks) = {"pressure_balance", "smoke_leaks"}
     /\ CheckOf("pressure_balance").pass <=> balanced
     /\ CheckOf("smoke_leaks").pass <=> clean
     /\ result.value.pass <=> balanced /\ clean
     /\ ~clean =>
          IF "leakLocations" \in DOMAIN reading /\ reading.leakLocations # <<>>
          THEN listed =>
                 CheckOf("smoke_leaks").message =
                   "Smoke leaks found at: " \o Join(reading.leakLocations, ", ")
          ELSE CheckOf("smoke_leaks").message =
                 "Smoke leaks found at: unspecified locations"

\* C13: for RETURN_CURB_LEAKAGE, pressure_balance passes iff
\* |returnStatic_inwc - supplyStatic_inwc| <= 0.1, smoke_leaks passes iff
\* smokeLeaksFound is false, overall pass requires both, and whenever
\* smokeLeaksFound is true and leakLocations is provided and non-empty the
\* smoke_leaks message lists every provided location, 'unspecified
\* locations' appearing only when none is provided.
C13_ReturnCurbLeakage ==
  pc = "returned" /\ testType = "RETURN_CURB_LEAKAGE"
    /\ reading \in ReturnCurbLeakageReadings => C13_Holds(TRUE)

\* C13 short of the locations whose text joins to the empty string: what the
\* code keeps.
C13_ForNamedLocations ==
  pc = "returned" /\ testType = "RETURN_CURB_LEAKAGE"
    /\ reading \in ReturnCurbLeakageReadings =>
      C13_Holds(Join(reading.leakLocations, ", ") # "")


\* max - min of the numerators of the property f over the samples (the
\* samples of the model are whole numbers).
C14_Spread(samples, f) ==
  LET vs == {samples[i][f].n : i \in DOMAIN samples}
  IN (CHOOSE hi \in vs : \A v \in vs : v <= hi)
     - (CHOOSE lo \in vs : \A v \in vs : lo <= v)

C15_CoilPerformance ==
  pc = "returned" /\ testType = "COIL_PERFORMANCE"
    /\ reading \in CoilPerformanceReadings =>
    LET drop == reading.returnDB_F.n - reading.supplyDB_F.n
        supplyDP == Calculation("supply_dew_point_F")
    IN /\ ~result.threw
       /\ Calculation("temperature_drop_F") = Whole(drop)
       /\ Names(result.value.checks) = {"supply_dew_point", "temperature_drop"}
       /\ Len(result.value.checks) = 2
       /\ CheckOf("temperature_drop").pass <=> 8 <= drop /\ drop <= 25
       /\ CheckOf("supply_dew_point").value = supplyDP
       /\ CheckOf("supply_dew_point").pass <=> Within(supplyDP, 50, 1, 55, 1)
       /\ result.value.pass <=>
            CheckOf("temperature_drop").pass /\ CheckOf("supply_dew_point").pass
       /\ (reading.returnDB_F = Whole(75) /\ reading.supplyDB_F = Whole(58) =>
             drop = 17 /\ CheckOf("temperature_drop").pass)

\* C15 witness: at 75 F return and 58 F supply the drop of 17 has passed
\* while a supply dew point of 58 F (100 % relative humidity) has failed.
C15_Witness ==
  /\ Returned
  /\ testType = "COIL_PERFORMANCE"
  /\ reading \in CoilPerformanceReadings
  /\ reading.returnDB_F = Whole(75)
  /\ reading.supplyDB_F = Whole(58)
  /\ reading.supplyRH_pct = Whole(100)
  /\ CheckOf("temperature_drop").pass
  /\ ~CheckOf("supply_dew_point").pass
  /\ Over(Calculation("supply_dew_point_F"), 55, 1)
  /\ ~result.value.pass


C17_EconomizerSeal ==
  pc = "returned" /\ testType = "ECONOMIZER_SEAL"
    /\ reading \in EconomizerSealReadings =>
    LET closed == reading.commandedPct.n <= 5 * reading.commandedPct.d
        tight == reading.leakageObserved = Bool(FALSE)
    IN /\ ~result.threw
       /\ Names(result.value.checks) = {"damper_position", "leakage_test"}
       /\ CheckOf("damper_position").pass <=> closed
       /\ CheckOf("leakage_test").pass <=> tight
       /\ result.value.pass <=> closed /\ tight

\* C17 witness: with the damper at 5 % and leakage observed, damper_position
\* has passed, leakage_test has failed and the result has not passed.
C17_Witness ==
  /\ Returned
  /\ testType = "ECONOMIZER_SEAL"
  /\ reading \in EconomizerSealReadings
  /\ reading.commandedPct = Whole(5)
  /\ reading.leakageObserved = Bool(TRUE)
  /\ CheckOf("damper_position").pass
  /\ ~CheckOf("leakage_test").pass
  /\ ~result.value.pass



\* The saturation temperature the table gives for the pressure p and the
\* refrigerant r, with p and the result as fractions.
C18_Saturation(p, r) ==
  IF r = "R-410A"
  THEN IF p.n <= 50 * p.d
         THEN Num(16 * p.n - 200 * p.d, 10 * p.d)
       ELSE IF p.n <= 100 * p.d
         THEN Num(600 * p.d + 12 * (p.n - 50 * p.d), 10 * p.d)
       ELSE IF p.n <= 200 * p.d
         THEN Num(1200 * p.d + 8 * (p.n - 100 * p.d), 10 * p.d)
       ELSE Num(2000 * p.d + 4 * (p.n - 200 * p.d), 10 * p.d)
  ELSE Num(64 * p.d + p.n, 2 * p.d)

\* a - b, for two fractions.
C18_Minus(a, b) == Num(a.n * b.d - b.n * a.d, a.d * b.d)

\* The refrigerant of a call of calculateSuperheat or calculateSubcooling.
C18_Refrigerant == IF calc.args[3] = Undefined THEN "R-410A" ELSE calc.args[3].s

\* C18: for R-410A the saturation temperature at pressure P is -20 + 1.6 P
\* up to 50, 60 + 1.2 (P - 50) up to 100, 120 + 0.8 (P - 100) up to 200 and
\* 200 + 0.4 (P - 200) above, and 32 + 0.5 P for any other refrigerant;
\* calculateSuperheat returns the line temperature minus it and
\* calculateSubcooling returns it minus the line temperature; 45 F at 118 psi
\* and 85 F at 285 psi give superheat_F = 45 - 134.4 and subcooling_F =
\* 234 - 85.
C18_SaturationTable ==
  pc = "calculated" =>
    /\ calc.name = "getSaturationTemp" =>
         calcResult = C18_Saturation(calc.args[1], calc.args[2].s)
    /\ calc.name = "calculateSuperheat" =>
         calcResult = C18_Minus(calc.args[1],
                                C18_Saturation(calc.args[2], C18_Refrigerant))
    /\ calc.name = "calculateSubcooling" =>
         calcResult = C18_Minus(C18_Saturation(calc.args[2], C18_Refrigerant),
                                calc.args[1])
    /\ calc.name = "computeRefrigerantCircuit" =>
         /\ ~calcResult.threw
         /\ Entry(calcResult.value.calculations, "superheat_F").value
              = Num(450 - 1344, 10)
         /\ Entry(calcResult.value.calculations, "subcooling_F").value
              = Whole(234 - 85)

\* C18 witness: computeRefrigerantCircuit has returned for 45 F at 118 psi
\* and 85 F at 285 psi, with a superheat of -89.4 and a subcooling of 149.
C18_Witness ==
  /\ pc = "calculated"
  /\ calc.name = "computeRefrigerantCircuit"
  /\ calc.args[1].suctionPSI = Whole(118)
  /\ calc.args[1].liquidPSI = Whole(285)
  /\ Entry(calcResult.value.calculations, "superheat_F").value = Num(-894, 10)
  /\ Entry(calcResult.value.calculations, "subcooling_F").value = Whole(149)



\* The sum S of an array of whole numbers.
RECURSIVE C19_Total(_)
C19_Total(values) ==
  IF values = <<>> THEN 0 ELSE values[1].n + C19_Total(Tail(values))

\* The sum of (N v - S)^2 over an array of whole numbers.
RECURSIVE C19_Squares(_, _, _)
C19_Squares(values, N, S) ==
  IF values = <<>> THEN 0
  ELSE (N * values[1].n - S) * (N * values[1].n - S)
         + C19_Squares(Tail(values), N, S)

\* The array with its elements in the order p.
C19_Reordered(values, p) == [i \in 1..Len(values) |-> values[p[i]]]

C20_EconomizerEffectiveness ==
  pc = "calculated" /\ calc.name = "calculateEconomizerEffectiveness" =>
    LET mixed == calc.args[1].n
        return == calc.args[2].n
        outside == calc.args[3].n
        sgn == IF return < outside THEN -1 ELSE 1
        num == sgn * 100 * (return - mixed)
        den == sgn * (return - outside)
        v == calcResult
    IN /\ v.t = "num"
       /\ 0 <= v.n
       /\ v.n <= 100 * v.d
       /\ return = outside => v = Whole(100)
       /\ return # outside =>
            v = IF num < 0 THEN Whole(0)
                ELSE IF num > 100 * den THEN Whole(100)
                ELSE Num(num, den)

\* C20 witness: with mixed air at 55, return air at 75 and outside air at 65
\* the quotient is 200 % and the routine has returned 100.
C20_Witness ==
  /\ pc = "calculated"
  /\ calc.name = "calculateEconomizerEffectiveness"
  /\ calc.args = <<Whole(55), Whole(75), Whole(65)>>
  /\ calcResult = Whole(100)



\* C21: calculateDewPoint(T, RH) is at most T for every RH with 0 < RH < 100
\* and equals T at RH = 100, for every T in -40..150.
C21_DewPointBelowDryBulb ==
  pc = "calculated" /\ calc.name = "calculateDewPoint" =>
    /\ calcResult.t = "num"
    /\ Le(calcResult, calc.args[1])
    /\ calc.args[2] = Whole(100) => calcResult = calc.args[1]

\* The half of C21 below saturation: for RH < 100 the dew point is a number
\* and is at most the dry-bulb temperature.
C21_BelowSaturation ==
  pc = "calculated" /\ calc.name = "calculateDewPoint"
    /\ calc.args[2] # Whole(100) =>
      calcResult.t = "num" /\ Le(calcResult, calc.args[1])



\* What is left of a weather context once everything the claim calls
\* irrelevant to the test type is taken out of it: the outdoor temperature
\* for REFRIGERANT_CIRCUIT, nothing for the other types.
C28_Relevant(tt, weather) ==
  [outdoorTemp |-> IF tt = "REFRIGERANT_CIRCUIT" THEN weather.outdoorTemp
                   ELSE Undefined,
   outdoorRH |-> Undefined]

\* C28: the weather context influences the result only for
\* REFRIGERANT_CIRCUIT.  Every invocation, in whatever weather, returns or
\* throws exactly what the same invocation does without outdoorRH and, for
\* the nine other test types, without any weather at all; so two invocations
\* of one of the nine that differ only in the weather have identical
\* results, and outdoorRH changes no result of any type.
C28_WeatherOnlyForRefrigerant ==
  pc = "returned" /\ testType \in RecognizedTypes =>
    result = computeTestResult(testType, reading, C28_Relevant(testType, weatherData))

\* C28 witness: a refrigerant circuit was computed at 105 °F and 50 % outdoor
\* relative humidity and its superheat was judged against the hot-weather
\* range, not the default one.
C28_Witness ==
  /\ pc = "returned"
  /\ testType = "REFRIGERANT_CIRCUIT"
  /\ weatherData = [outdoorTemp |-> Whole(105), outdoorRH |-> Whole(50)]
  /\ ~result.threw
  /\ \E i \in DOMAIN result.value.checks :
       /\ result.value.checks[i].name = "superheat"
       /\ result.value.checks[i].target = "6 - 12°F"


----------------------------------------------------------------------------
\* C29: for ECONOMIZER_SEAL the summary reads 'Economizer seal test passed'
\* if and only if the overall pass of the result is true.
C29_SummaryMatchesVerdict ==
  pc = "returned" /\ testType = "ECONOMIZER_SEAL" /\ ~result.threw =>
    (result.value.summary = "Economizer seal test passed" <=> result.value.pass)

\* What holds of the summary: it follows the leakage check alone, so a
\* passed result always reads 'Economizer seal test passed', and a result
\* reads so exactly when its leakage_test check passed.
C29_SummaryFollowsLeakage ==
  pc = "returned" /\ testType = "ECONOMIZER_SEAL" /\ ~result.threw =>
    /\ result.value.pass => result.value.summary = "Economizer seal test passed"
    /\ \A i \in DOMAIN result.value.checks :
         result.value.checks[i].name = "leakage_test" =>
           (result.value.summary = "Economizer seal test passed"
              <=> result.value.checks[i].pass)


(* Properties of the handlers around the engine                             *)

\* A step of POST /api/tests that answered a request or created a record.
C22_PostStep ==
  /\ request' # NoRequest
  /\ <<request, response, testResults>>' # <<request, response, testResults>>

\* The conditions of POST /api/tests on the request answered by the step.
C22_Authenticated == request'.user \in Users
C22_Validates == request'.parsed /\ CreateTestResultSchema(request')
C22_SessionExists == \E x \in Sessions : x.id = request'.sessionId
C22_Editor ==
  \E x \in Sessions :
    /\ x.id = request'.sessionId
    /\ MembershipRole(request'.user, x.projectId) \in {"EDITOR", "OWNER"}
C22_UnitExists == request'.unitId = Absent \/ request'.unitId \in HvacUnits

\* The step answered with the status and created no record.
C22_Rejected(status) == response'.status = status /\ testResults' = testResults

\* C22: POST /api/tests creates a record only if, in this order, the
\* requester is authenticated (else 401), the body validates (else 400), the
\* session exists (else 404), the requester is EDITOR or OWNER of the
\* session's project (else 403) and the unit exists when given (else 404);
\* a rejected request creates no record.
C22_ChecksBeforeCreate ==
  [][C22_PostStep =>
       IF ~C22_Authenticated THEN C22_Rejected(401)
       ELSE IF ~C22_Validates THEN C22_Rejected(400)
       ELSE IF ~C22_SessionExists THEN C22_Rejected(404)
       ELSE IF ~C22_Editor THEN C22_Rejected(403)
       ELSE IF ~C22_UnitExists THEN C22_Rejected(404)
       ELSE /\ response'.status = 201
            /\ Len(testResults') = Len(testResults) + 1]_vars

\* The part of C22 that does not name the statuses: a record is created only
\* when all five conditions hold, and any other request leaves the records
\* as they were; a body that parses is answered with the status of the first
\* condition it fails.
C22_CreateOnlyWhenAdmitted ==
  [][C22_PostStep =>
       /\ testResults' # testResults =>
            /\ C22_Authenticated /\ C22_Validates /\ C22_SessionExists
            /\ C22_Editor /\ C22_UnitExists
            /\ response'.status = 201
       /\ response'.status # 201 => testResults' = testResults
       /\ request'.parsed =>
            IF ~C22_Authenticated THEN C22_Rejected(401)
            ELSE IF ~C22_Validates THEN C22_Rejected(400)
            ELSE IF ~C22_SessionExists THEN C22_Rejected(404)
            ELSE IF ~C22_Editor THEN C22_Rejected(403)
            ELSE IF ~C22_UnitExists THEN C22_Rejected(404)
            ELSE response'.status = 201]_vars



\* The project the stored test result belongs to.
C23_ProjectOf(row) == (CHOOSE x \in Sessions : x.id = row.sessionId).projectId

\* Every test result in the answer belongs to a project in which the
\* requester holds a membership (VIEWER, EDITOR or OWNER).
C23_AllVisible ==
  \A i \in 1..Len(view.testResults) :
    MembershipRole(query.user, C23_ProjectOf(view.testResults[i]))
      \in {"VIEWER", "EDITOR", "OWNER"}

\* C23: GET /api/tests returns only test results of projects in which the
\* requester holds at least a VIEWER membership, for every combination of
\* the sessionId, unitId and testType filters, sessionId omitted included.
C23_OnlyMemberProjects ==
  query.route = "tests" /\ view.status = 200 => C23_AllVisible

\* The part of C23 with a sessionId: the answer holds results of that
\* session only, and the requester is a member of its project.
C23_WithSessionFilter ==
  query.route = "tests" /\ view.status = 200 /\ query.sessionId # Absent =>
    /\ C23_AllVisible
    /\ \A i \in 1..Len(view.testResults) :
         view.testResults[i].sessionId = query.sessionId



\* A step of POST /api/projects that answered a request.
C24_Step == <<request, response, projects, memberships>>'
              # <<request, response, projects, memberships>>

\* C24: POST /api/projects creates a project only for an authenticated user
\* whose global role is ENGINEER or ADMIN (a VIEWER gets 403) and only when
\* the organization exists; a step that creates a project creates the OWNER
\* membership of its creator with it, a step that fails leaves both tables
\* as they were, and in every state every project has an OWNER membership.
C24_ProjectWithOwner ==
  /\ [](\A i \in 1..Len(projects) :
          \E m \in memberships : m.projectId = projects[i].id /\ m.role = "OWNER")
  /\ [][C24_Step =>
          /\ request'.user \in Users /\ UserRole(request'.user) = "VIEWER" =>
               response'.status = 403
          /\ IF response'.status = 201
             THEN /\ request'.user \in Users
                  /\ UserRole(request'.user) \in {"ENGINEER", "ADMIN"}
                  /\ request'.orgId \in Organizations
                  /\ Len(projects') = Len(projects) + 1
                  /\ SubSeq(projects', 1, Len(projects)) = projects
                  /\ projects'[Len(projects')].orgId = request'.orgId
                  /\ memberships' = memberships \cup
                       {[userId |-> request'.user,
                         projectId |-> projects'[Len(projects')].id,
                         role |-> "OWNER"]}
                  /\ memberships' # memberships
             ELSE projects' = projects /\ memberships' = memberships]_vars

\* C24 witness: bob, an ENGINEER, has created the second project and is its
\* OWNER, after alice created the first.
C24_Witness ==
  /\ pc = "projects"
  /\ response.status = 201
  /\ request.user = "bob@example.com"
  /\ Len(projects) = 2
  /\ [userId |-> "bob@example.com", projectId |-> 2, role |-> "OWNER"] \in memberships
  /\ [userId |-> "alice@example.com", projectId |-> 1, role |-> "OWNER"] \in memberships



\* C25: after any sequence or interleaving of POST /api/reports/[sessionId]
\* requests at most one report exists per session.
C25_OneReportPerSession ==
  \A i, j \in 1..Len(reports) :
    reports[i].sessionId = reports[j].sessionId => i = j

\* The sequential part of C25: a handler that found a report updates it and
\* creates none, so a second report of a session appears only when two
\* handlers both found none.
C25_SecondReportOnlyFromRace ==
  [][\A i \in 1..Len(reports) :
       Len(reports') > Len(reports)
         /\ reports'[Len(reports')].sessionId = reports[i].sessionId =>
           \E h \in 1..Len(handlers) :
             /\ handlers[h].at = "found" /\ handlers[h].found = 0
             /\ handlers'[h].at = "done"
             /\ handlers[h].request.sessionId = reports[i].sessionId]_vars



\* The file the request of the step names, and whether the handler's access
\* check refuses the requester.
C26_Named == {x \in files : x.id = request'.fileId}
C26_AccessFails ==
  \E x \in C26_Named :
    /\ x.projectId # ""
    /\ MembershipRole(request'.user, x.projectId) \notin {"EDITOR", "OWNER"}

\* C26: DELETE /api/files/[id] by an authorized requester removes the file's
\* record and answers success whether or not the object was deleted from S3,
\* and removes nothing when the file is not found or the access check fails.
C26_DeleteDespiteS3Failure ==
  [][<<request, response, files, objects>>' # <<request, response, files, objects>> =>
       IF request'.user \in Users /\ C26_Named # {} /\ ~C26_AccessFails
       THEN /\ response'.status = 200
            /\ files' = files \ C26_Named
            /\ objects' \subseteq objects
       ELSE /\ response'.status # 200
            /\ files' = files
            /\ objects' = objects]_vars

\* C26 witness: bob, EDITOR of the project, has deleted cfile0001 with
\* success although its object is still in the bucket.
C26_Witness ==
  /\ pc = "files"
  /\ request.user = "bob@example.com"
  /\ request.fileId = "cfile0001"
  /\ response.status = 200
  /\ \A x \in files : x.id # "cfile0001"
  /\ "projects/1/a.jpg" \in objects



\* The stored tests of the session the query names.
C27_Tests ==
  LET ofSession(row) == row.sessionId = query.sessionId
  IN SelectSeq(testResults, ofSession)

\* The number of those tests whose stored pass is the value.
C27_Count(pass) ==
  Cardinality({i \in 1..Len(C27_Tests) : C27_Tests[i].pass = pass})

----------------------------------------------------------------------------
(* Properties of the coil-performance form                                 *)

\* The pass of the check `name` of a result.
C30_Pass(value, name) == Entry(value.checks, name).pass

\* C30: for every coil-performance reading for which the form shows a live
\* result (all four temperature and humidity inputs above 0), the form's
\* supply_dew_point and temperature_drop checks pass exactly when the
\* server's do for the same reading, the form's overall pass implies the
\* server's, and the two verdicts differ exactly when the form's
\* humidity-rise check (10 <= supplyRH - returnRH <= 40) fails while both
\* shared checks pass.
C30_FormAgreesWithServer ==
  pc = "posted" /\ computed.shown =>
    LET form == computed.value
        server == result.value
        rhRise == Sub(reading.supplyRH_pct, reading.returnRH_pct)
    IN /\ ~result.threw
       /\ C30_Pass(form, "supply_dew_point") = C30_Pass(server, "supply_dew_point")
       /\ C30_Pass(form, "temperature_drop") = C30_Pass(server, "temperature_drop")
       /\ form.pass => server.pass
       /\ C30_Pass(form, "humidity_performance")
            <=> (Ge(rhRise, Whole(10)) /\ Le(rhRise, Whole(40)))
       /\ form.pass # server.pass
            <=> /\ ~C30_Pass(form, "humidity_performance")
                /\ C30_Pass(form, "supply_dew_point")
                /\ C30_Pass(form, "temperature_drop")

\* The form shows a live result exactly when all four inputs are above 0.
C30_Shown ==
  pc # "form" =>
    (computed.shown <=>
       \A f \in {"returnDB_F", "returnRH_pct", "supplyDB_F", "supplyRH_pct"} :
         Gt(reading[f], Whole(0)))

\* C30 witness: the form showed FAIL for a reading whose humidity-rise check
\* fails while its dew point and temperature drop are in range, and the
\* server passed the same reading.
C30_Witness ==
  /\ pc = "posted"
  /\ computed.shown
  /\ ~computed.value.pass
  /\ ~C30_Pass(computed.value, "humidity_performance")
  /\ C30_Pass(computed.value, "supply_dew_point")
  /\ C30_Pass(computed.value, "temperature_drop")
  /\ ~result.threw
  /\ result.value.pass

============================================================================
